---- MODULE Spec2Model ----
(***************************************************************************)
(* Model of the engram semantic-memory store: the MemoryStore facade, the  *)
(* SQLiteBackend (primary table `memories`, external-content FTS5 index    *)
(* `memories_fts` kept by three triggers) and the hybrid search pipeline.  *)
(***************************************************************************)
EXTENDS Integers, Sequences, FiniteSets, TLC

(***************************************************************************)
(* Bounds of the model.                                                    *)
(***************************************************************************)
\* largest rowid the table may hand out
MaxRowid == 2
\* longest batch given to addBatch
MaxBatch == 2
\* longest ranking given to the rank fusion functions
MaxRanking == 3
\* largest dimension of the vectors given to cosineSimilarity
MaxDim == 3
\* significant bits a floating-point number keeps (binary64 keeps 53; the
\* model rounds the same way, to nearest with ties to even, at the width
\* its integers allow)
Mantissa == 9

(***************************************************************************)
(* Input domains.                                                          *)
(***************************************************************************)
\* ids: caller-supplied (options.id) or generated (crypto.randomUUID())
CustomIds == {[custom |-> TRUE, n |-> 1]}

UUID(n) == [custom |-> FALSE, n |-> n]

\* the ids crypto.randomUUID() draws from, in the order the model names them
UuidPool == <<UUID(1), UUID(2)>>

\* a content is a text, modelled by the sequence of its terms
Contents == {<<"a">>, <<"b">>}

\* search queries: a text of terms (FTS5 MATCH: every term must occur)
Queries == {<<"a">>, <<"b">>}

Limits == {1, 2}

\* JavaScript metadata values: undefined, {}, {source: "test"}, {n: NaN}
MetaUndefined == [t |-> "undefined", kv |-> <<>>]

MetaEmpty == [t |-> "object", kv |-> <<>>]

MetaSource == [t |-> "object", kv |-> << <<"source", "\"test\"">> >>]

MetaNaN == [t |-> "object", kv |-> << <<"n", "NaN">> >>]

Metas == {MetaUndefined, MetaEmpty, MetaSource, MetaNaN}

\* the (content, metadata) pairs given to add, and those given to addBatch
AddInputs == {[content |-> <<"a">>, metadata |-> MetaSource],
              [content |-> <<"b">>, metadata |-> MetaUndefined]}

Items == {[content |-> <<"a">>, metadata |-> MetaSource],
          [content |-> <<"b">>, metadata |-> MetaUndefined]}

\* the values Date.now() returns
Times == {1, 2}

\* the value Date.now() returns when every call falls in the same millisecond
Instant == {1}

\* the texts of the searchBM25 tests, as the tokenizer of FTS5 splits them
Texts == {<<"javascript", "is", "a", "programming", "language">>,
          <<"python", "is", "also", "a", "programming", "language">>,
          <<"cooking", "recipes", "for", "dinner">>}

\* the queries of the tests, and one of a term every other text has
TextQueries == {<<"programming", "language">>, <<"nonexistent">>, <<"is">>, <<"cooking">>}

\* the limits of the tests
TextLimits == {0, 1, 2, 10}

\* the rowids of a table that the three texts are added to
MaxTextRowid == 3

\* metadata that is JSON-like: every value is a JSON value
JsonLike(meta) == \A i \in DOMAIN meta.kv : meta.kv[i][2] \notin {"NaN", "undefined"}

(***************************************************************************)
(* SQL and JavaScript values.                                              *)
(***************************************************************************)
SqlNull == [null |-> TRUE, v |-> <<>>]

SqlVal(v) == [null |-> FALSE, v |-> v]

SqlNullInt == [null |-> TRUE, v |-> 0]

SqlInt(n) == [null |-> FALSE, v |-> n]

JsUndefined == [undef |-> TRUE, v |-> <<>>]

JsVal(v) == [undef |-> FALSE, v |-> v]

JsUndefinedInt == [undef |-> TRUE, v |-> 0]

JsInt(n) == [undef |-> FALSE, v |-> n]

\* JSON.stringify of a metadata object: a key whose value is undefined is
\* dropped, NaN is written as null
RECURSIVE StringifyPairs(_)
StringifyPairs(kv) ==
    IF kv = <<>> THEN <<>>
    ELSE LET k == Head(kv)[1]
             v == Head(kv)[2]
             rest == StringifyPairs(Tail(kv))
         IN  IF v = "undefined" THEN rest
             ELSE << <<k, IF v = "NaN" THEN "null" ELSE v>> >> \o rest

JSONstringify(meta) == <<"{">> \o StringifyPairs(meta.kv) \o <<"}">>

\* JSON.parse of a text written by JSON.stringify
JSONparse(text) ==
    [t |-> "object", kv |-> SubSeq(text, 2, Len(text) - 1)]

\* the embedding provider's embed(text)
embed(content) ==
    LET a == \E i \in DOMAIN content : content[i] = "a"
        b == \E i \in DOMAIN content : content[i] = "b"
    IN  IF a /\ b THEN <<3, 4>>
        ELSE IF a THEN <<1, 0>>
        ELSE IF b THEN <<0, 1>>
        ELSE <<0, 0>>

(***************************************************************************)
(* State.                                                                  *)
(***************************************************************************)
VARIABLES
    dbOpen,         \* the better-sqlite3 connection is open
    closeCalled,    \* close() has been called on the store
    hasProvider,    \* config.embeddingProvider is set
    memories,       \* committed rows of table memories
    fts,            \* committed postings of memories_fts: <<rowid, term>>
    tx,             \* the addBatch transaction in progress
    readerSaw,      \* ids of the running batch a concurrent reader listed
    last,           \* the last call on the store and its outcome
    calc            \* a call of a pure function: its arguments and its result

vars == <<dbOpen, closeCalled, hasProvider, memories, fts, tx,
          readerSaw, last, calc>>

StoreVars == <<dbOpen, closeCalled, hasProvider, memories, fts, tx, readerSaw, last>>

TxIdle == [pc |-> "idle", items |-> <<>>, i |-> 1, mem |-> {}, fts |-> {}]

\* err is "none" for a call that returned normally, "running" for an addBatch
\* that has not returned yet, and otherwise says what threw: "provider", "closed" (the connection is not open), "storage" (the
\* statement failed) or "unsupported" (no embedding provider)
\* with the ids the call was about, whether the id of an add or a delete was
\* stored when the call began, and the memories an add or addBatch returned
Call(op, err, ids, existed, res) ==
    [op |-> op, err |-> err, ids |-> ids, existed |-> existed, res |-> res]

NoCall == Call("none", "none", <<>>, FALSE, <<>>)

(***************************************************************************)
(* SQLiteBackend: the table, the triggers and the statements.              *)
(***************************************************************************)
Terms(content) == {content[i] : i \in DOMAIN content}

Max(S) == CHOOSE x \in S : \A y \in S : y <= x

\* the rowid SQLite gives a new row: one more than the largest rowid in the
\* table (1 for an empty table); it is chosen before a conflicting row is
\* removed
NewRowid(mem) == IF mem = {} THEN 1 ELSE Max({r.rowid : r \in mem}) + 1

\* trigger memories_ai: index the new row's content under its rowid
memories_ai(index, new) == index \cup {<<new.rowid, t>> : t \in Terms(new.content)}

\* trigger memories_ad: the FTS5 'delete' command for the old row
memories_ad(index, old) == index \ {<<old.rowid, t>> : t \in Terms(old.content)}

\* (a plain INSERT that lets the row with the same id stand)
ReplaceConflictsNone(mem, index, id) ==
    [mem |-> mem, fts |-> index]

\* INSERT OR REPLACE removes the row that holds the same primary key; the
\* connection leaves recursive_triggers off, so the removal does not fire
\* the delete trigger and the index is left alone
ReplaceConflicts(mem, index, id) ==
    [mem |-> {r \in mem : r.id # id}, fts |-> index]

\* serialization of one Memory into the statement's parameters
RowOf(memory, rowid) ==
    [rowid |-> rowid,
     id |-> memory.id,
     content |-> memory.content,
     embedding |-> IF memory.embedding.undef THEN SqlNull
                   ELSE SqlVal(memory.embedding.v),
     metadata |-> IF memory.metadata.t = "undefined" THEN SqlNull
                  ELSE SqlVal(JSONstringify(memory.metadata)),
     created_at |-> memory.createdAt,
     updated_at |-> IF memory.updatedAt.undef THEN SqlNullInt
                    ELSE SqlInt(memory.updatedAt.v)]

\* INSERT OR REPLACE INTO memories ... : one statement with its triggers
InsertOrReplace(mem, index, memory) ==
    LET rowid == NewRowid(mem)
        kept == ReplaceConflicts(mem, index, memory.id)
        new == RowOf(memory, rowid)
    IN  [mem |-> kept.mem \cup {new}, fts |-> memories_ai(kept.fts, new)]

\* (a delete that clears the index entries and leaves the row)
DeleteRowIndexOnly(mem, index, id) ==
    LET old == {r \in mem : r.id = id}
    IN  [mem |-> mem,
         fts |-> IF old = {} THEN index
                 ELSE memories_ad(index, CHOOSE r \in old : TRUE)]

\* (a DELETE without its WHERE clause)
DeleteRowAll(mem, index, id) ==
    [mem |-> {}, fts |-> {p \in index : \A r \in mem : r.rowid # p[1]}]

\* DELETE FROM memories WHERE id = ? with trigger memories_ad
DeleteRow(mem, index, id) ==
    LET old == {r \in mem : r.id = id}
    IN  [mem |-> mem \ old,
         fts |-> IF old = {} THEN index
                 ELSE memories_ad(index, CHOOSE r \in old : TRUE)]

\* (a row mapping that forgets the metadata column)
rowToMemoryNoMetadata(row) ==
    [id |-> row.id,
     content |-> row.content,
     embedding |-> IF row.embedding.null THEN JsUndefined
                   ELSE JsVal(row.embedding.v),
     metadata |-> MetaUndefined,
     createdAt |-> row.created_at,
     updatedAt |-> IF row.updated_at.null THEN JsUndefinedInt
                   ELSE JsInt(row.updated_at.v)]

rowToMemory(row) ==
    [id |-> row.id,
     content |-> row.content,
     embedding |-> IF row.embedding.null THEN JsUndefined
                   ELSE JsVal(row.embedding.v),
     metadata |-> IF row.metadata.null THEN MetaUndefined
                  ELSE JSONparse(row.metadata.v),
     createdAt |-> row.created_at,
     updatedAt |-> IF row.updated_at.null THEN JsUndefinedInt
                   ELSE JsInt(row.updated_at.v)]

\* SELECT * FROM memories WHERE id = ?  (the empty sequence stands for null)
get(mem, id) ==
    LET rows == {r \in mem : r.id = id}
    IN  IF rows = {} THEN <<>> ELSE <<rowToMemory(CHOOSE r \in rows : TRUE)>>

(***************************************************************************)
(* Scores are exact rationals [n, d] with d > 0.                           *)
(***************************************************************************)
Rat(n, d) == [n |-> n, d |-> d]

RECURSIVE Gcd(_, _)
Gcd(a, b) == IF b = 0 THEN a ELSE Gcd(b, a % b)

\* least common denominator
Lcd(a, b) == (a.d \div Gcd(a.d, b.d)) * b.d

RatLess(a, b) ==
    IF a.d = b.d THEN a.n < b.n
    ELSE LET l == Lcd(a, b)
         IN  a.n * (l \div a.d) < b.n * (l \div b.d)

RatAdd(a, b) ==
    IF a.d = b.d THEN Rat(a.n + b.n, a.d)
    ELSE LET l == Lcd(a, b)
         IN  Rat(a.n * (l \div a.d) + b.n * (l \div b.d), l)

RatNeg(a) == Rat(0 - a.n, a.d)

Take(seq, n) == SubSeq(seq, 1, IF n < Len(seq) THEN n ELSE Len(seq))

\* place item behind every element that does not come after it
RECURSIVE InsertSorted(_, _, _)
InsertSorted(item, sorted, desc) ==
    IF sorted = <<>> THEN <<item>>
    ELSE IF (IF desc THEN RatLess(Head(sorted).score, item.score)
                     ELSE RatLess(item.score, Head(sorted).score))
         THEN <<item>> \o sorted
         ELSE <<Head(sorted)>> \o InsertSorted(item, Tail(sorted), desc)

\* the stable sort of Array.prototype.sort and of ORDER BY, on field score
RECURSIVE SortFrom(_, _, _)
SortFrom(seq, acc, desc) ==
    IF seq = <<>> THEN acc
    ELSE SortFrom(Tail(seq), InsertSorted(Head(seq), acc, desc), desc)

SortDesc(seq) == SortFrom(seq, <<>>, TRUE)

SortAsc(seq) == SortFrom(seq, <<>>, FALSE)

\* the rows of a table scan, in rowid order
RECURSIVE ScanFrom(_, _)
ScanFrom(mem, acc) ==
    IF mem = {} THEN acc
    ELSE LET r == CHOOSE x \in mem : \A y \in mem : x.rowid <= y.rowid
         IN  ScanFrom(mem \ {r}, Append(acc, r))

Scan(mem) == ScanFrom(mem, <<>>)

RECURSIVE SelectSeq2(_, _)
SelectSeq2(seq, S) ==
    IF seq = <<>> THEN <<>>
    ELSE IF Head(seq) \in S THEN <<Head(seq)>> \o SelectSeq2(Tail(seq), S)
         ELSE SelectSeq2(Tail(seq), S)

\* rowids the index holds for every term of the query (MATCH)
Match(index, query) ==
    {p[1] : p \in {q \in index : \A t \in Terms(query) : <<q[1], t>> \in index}}

\* number of terms indexed under a rowid (the document size)
DocSize(index, rowid) == Cardinality({p \in index : p[1] = rowid})

\* bm25(memories_fts): the raw engine score, lower is better.  Every term
\* occurs once in a content, so among the rows that match a query the raw
\* score falls with the document size; the model keeps that order with
\* the score -|query| / size.
bm25(index, rowid, query) ==
    Rat(0 - Cardinality(Terms(query)), DocSize(index, rowid))

\* (ORDER BY score DESC: the worst match first)
searchBM25WorstFirst(mem, index, query, limit) ==
    LET hits == Match(index, query)
        joined == SelectSeq2(Scan(mem), {r \in mem : r.rowid \in hits})
        scored == [i \in DOMAIN joined |->
                     [row |-> joined[i], score |-> bm25(index, joined[i].rowid, query)]]
        rows == Take(SortDesc(scored), limit)
    IN  [i \in DOMAIN rows |->
           [memory |-> rowToMemory(rows[i].row), score |-> RatNeg(rows[i].score)]]

\* (the engine's score handed on as it is, not negated)
searchBM25RawScore(mem, index, query, limit) ==
    LET hits == Match(index, query)
        joined == SelectSeq2(Scan(mem), {r \in mem : r.rowid \in hits})
        scored == [i \in DOMAIN joined |->
                     [row |-> joined[i], score |-> bm25(index, joined[i].rowid, query)]]
        rows == Take(SortAsc(scored), limit)
    IN  [i \in DOMAIN rows |->
           [memory |-> rowToMemory(rows[i].row), score |-> rows[i].score]]

\* SQLiteBackend.searchBM25: FTS rows joined to memories on rowid,
\* ORDER BY score LIMIT ?, the score negated on the way out
searchBM25(mem, index, query, limit) ==
    LET hits == Match(index, query)
        joined == SelectSeq2(Scan(mem), {r \in mem : r.rowid \in hits})
        scored == [i \in DOMAIN joined |->
                     [row |-> joined[i], score |-> bm25(index, joined[i].rowid, query)]]
        rows == Take(SortAsc(scored), limit)
    IN  [i \in DOMAIN rows |->
           [memory |-> rowToMemory(rows[i].row), score |-> RatNeg(rows[i].score)]]

RECURSIVE Pow2(_)
Pow2(e) == IF e = 0 THEN 1 ELSE 2 * Pow2(e - 1)

Abs(n) == IF n < 0 THEN 0 - n ELSE n

\* the significand of a floating-point number is below this
SignificandLimit == Pow2(Mantissa)

\* halvings that bring a / d below the limit of the significand
RECURSIVE ScaleUp(_, _)
ScaleUp(a, d) == IF a >= d * SignificandLimit THEN 1 + ScaleUp(a, 2 * d) ELSE 0

\* doublings that keep a / d below the limit of the significand
RECURSIVE ScaleDown(_, _)
ScaleDown(a, d) == IF 2 * a < d * SignificandLimit THEN 1 + ScaleDown(2 * a, d) ELSE 0

\* the floating-point number nearest to the rational x (ties to even): the
\* result of every arithmetic operation of JavaScript is rounded this way;
\* an integer below the limit of the significand is a floating-point
\* number and is its own rounding
Round(x) ==
    IF x.n = 0 THEN Rat(0, 1)
    ELSE IF x.n % x.d = 0 /\ Abs(x.n) \div x.d < SignificandLimit
    THEN Rat(x.n \div x.d, 1)
    ELSE LET a == Abs(x.n)
             sign == IF x.n < 0 THEN 0 - 1 ELSE 1
             up == ScaleUp(a, x.d)
             down == IF up > 0 THEN 0 ELSE ScaleDown(a, x.d)
             num == a * Pow2(down)
             den == x.d * Pow2(up)
             q == num \div den
             r == num % den
             m == IF 2 * r > den \/ (2 * r = den /\ q % 2 = 1) THEN q + 1 ELSE q
         IN  IF up > 0 THEN Rat(sign * m * Pow2(up), 1)
             ELSE Rat(sign * m, Pow2(down))

RatMul(a, b) == Rat(a.n * b.n, a.d * b.d)

\* a / b for b > 0
RatDiv(a, b) == Rat(a.n * b.d, a.d * b.n)

\* the largest r in lo..hi-1 with r * r <= v
RECURSIVE ISqrt(_, _, _)
ISqrt(v, lo, hi) ==
    IF hi - lo <= 1 THEN lo
    ELSE LET mid == (lo + hi) \div 2
         IN  IF mid * mid <= v THEN ISqrt(v, mid, hi) ELSE ISqrt(v, lo, mid)

\* doublings of the root that give it Mantissa bits
RECURSIVE SqrtScale(_)
SqrtScale(n) ==
    IF 4 * n >= SignificandLimit * SignificandLimit THEN 0 ELSE 1 + SqrtScale(4 * n)

\* Math.sqrt of an integer n >= 0: the floating-point number nearest to
\* the square root, which for a square is the root itself
Sqrt(n) ==
    IF n = 0 THEN Rat(0, 1)
    ELSE LET root == ISqrt(n, 0, n + 1)
             s == SqrtScale(n)
             v == n * Pow2(2 * s)
             r == ISqrt(v, 0, SignificandLimit + 1)
             m == IF v > r * r + r THEN r + 1 ELSE r
         IN  IF root * root = n /\ root < SignificandLimit THEN Rat(root, 1)
             ELSE Rat(m, Pow2(s))

RECURSIVE SumTo(_, _, _)
SumTo(a, b, i) == IF i = 0 THEN 0 ELSE a[i] * b[i] + SumTo(a, b, i - 1)

\* SQLiteBackend.cosineSimilarity; the components of the model's vectors
\* are small integers, so the three sums of the loop are exact
cosineSimilarity(a, b) ==
    IF Len(a) # Len(b) THEN Rat(0, 1)
    ELSE LET dotProduct == SumTo(a, b, Len(a))
             normA == SumTo(a, a, Len(a))
             normB == SumTo(b, b, Len(b))
             magnitude == Round(RatMul(Sqrt(normA), Sqrt(normB)))
         IN  IF magnitude.n = 0 THEN Rat(0, 1)
             ELSE Round(RatDiv(Rat(dotProduct, 1), magnitude))

\* (a scan of every row, one without an embedding scoring 0)
searchVectorAllRows(mem, embedding, limit) ==
    LET rows == Scan(mem)
        scored == [i \in DOMAIN rows |->
                     [memory |-> rowToMemory(rows[i]),
                      score |-> IF rows[i].embedding.null THEN Rat(0, 1)
                                ELSE cosineSimilarity(embedding, rows[i].embedding.v)]]
    IN  Take(SortDesc(scored), limit)

\* (the results cut to limit without the sort)
searchVectorUnsorted(mem, embedding, limit) ==
    LET rows == SelectSeq2(Scan(mem), {r \in mem : ~r.embedding.null})
        scored == [i \in DOMAIN rows |->
                     [memory |-> rowToMemory(rows[i]),
                      score |-> cosineSimilarity(embedding, rows[i].embedding.v)]]
    IN  Take(scored, limit)

\* SQLiteBackend.searchVector: linear scan of the rows with an embedding
searchVector(mem, embedding, limit) ==
    LET rows == SelectSeq2(Scan(mem), {r \in mem : ~r.embedding.null})
        scored == [i \in DOMAIN rows |->
                     [memory |-> rowToMemory(rows[i]),
                      score |-> cosineSimilarity(embedding, rows[i].embedding.v)]]
    IN  Take(SortDesc(scored), limit)

\* SQLiteBackend.list: ORDER BY created_at DESC [LIMIT ?]; limit 0 is
\* falsy in JavaScript and selects the statement without LIMIT
list(mem, limit) ==
    LET rows == Scan(mem)
        keyed == [i \in DOMAIN rows |->
                    [memory |-> rowToMemory(rows[i]), score |-> Rat(rows[i].created_at, 1)]]
        sorted == SortDesc(keyed)
        cut == IF limit = 0 THEN sorted ELSE Take(sorted, limit)
    IN  [i \in DOMAIN cut |-> cut[i].memory]

\* MemoryStore.list(limit?): the caller's limit, undefined when none is
\* given, goes to the backend, where undefined and 0 are both falsy
MemoryStore_list(mem, limit) == list(mem, IF limit.undef THEN 0 ELSE limit.v)

\* (the second count taken over every row)
getStatsCountsEveryRow(mem) ==
    [totalMemories |-> Cardinality(mem),
     memoriesWithEmbeddings |-> Cardinality(mem)]

\* SQLiteBackend.getStats
getStats(mem) ==
    [totalMemories |-> Cardinality(mem),
     memoriesWithEmbeddings |-> Cardinality({r \in mem : ~r.embedding.null})]

(***************************************************************************)
(* Rank fusion and the hybrid search pipeline.                             *)
(***************************************************************************)
DEFAULT_CONFIG == [k |-> 60]

\* index of the entry of acc that holds id, 0 when there is none
IndexOfId(acc, id) ==
    IF \E j \in DOMAIN acc : acc[j].id = id
    THEN CHOOSE j \in DOMAIN acc : acc[j].id = id
    ELSE 0

\* the inner loop of weightedRRF over one ranking, from position rank on
RECURSIVE RrfRanking(_, _, _, _, _)
RrfRanking(ranking, weight, k, rank, acc) ==
    IF rank >= Len(ranking) THEN acc
    ELSE LET item == ranking[rank + 1]
             id == item.memory.id
             rrfScore == Rat(weight, k + rank + 1)
             j == IndexOfId(acc, id)
             acc2 == IF j # 0
                     THEN [acc EXCEPT ![j].score = RatAdd(@, rrfScore)]
                     ELSE Append(acc, [id |-> id, item |-> item, score |-> rrfScore])
         IN  RrfRanking(ranking, weight, k, rank + 1, acc2)

RECURSIVE RrfAll(_, _, _)
RrfAll(rankings, k, acc) ==
    IF rankings = <<>> THEN acc
    ELSE RrfAll(Tail(rankings), k,
                RrfRanking(Head(rankings).ranking, Head(rankings).weight, k, 0, acc))

\* the loops of reciprocalRankFusion: those of weightedRRF with 1 for weight
RECURSIVE RrfPlain(_, _, _)
RrfPlain(rankings, k, acc) ==
    IF rankings = <<>> THEN acc
    ELSE RrfPlain(Tail(rankings), k, RrfRanking(Head(rankings), 1, k, 0, acc))

\* (scores 1 / (k + rank + 2): the rank counted from 1 and 1 added again)
reciprocalRankFusionOffByOne(rankings, k) == SortDesc(RrfPlain(rankings, k + 1, <<>>))

\* (the entries as the map holds them, unsorted)
reciprocalRankFusionUnsorted(rankings, k) == RrfPlain(rankings, k, <<>>)

\* (config is not read: k is always the default)
reciprocalRankFusionDefaultK(rankings, k) ==
    SortDesc(RrfPlain(rankings, DEFAULT_CONFIG.k, <<>>))

\* (a sort that is not stable: entries of equal score come out in the
\* reverse of the order in which the map holds them)
reciprocalRankFusionTiesReversed(rankings, k) ==
    LET entries == RrfPlain(rankings, k, <<>>)
    IN  SortDesc([i \in DOMAIN entries |-> entries[Len(entries) + 1 - i]])

reciprocalRankFusion(rankings, k) == SortDesc(RrfPlain(rankings, k, <<>>))

\* (a fusion that returns the entries as the map holds them, unsorted)
weightedRRFUnsorted(rankings, k) == RrfAll(rankings, k, <<>>)

\* (a fusion that skips a ranking whose weight is 0)
weightedRRFSkipsZeroWeight(rankings, k) ==
    SortDesc(RrfAll(SelectSeq(rankings, LAMBDA x : x.weight # 0), k, <<>>))

\* (a fusion that forgets the weights)
weightedRRFUnweighted(rankings, k) ==
    reciprocalRankFusion([i \in DOMAIN rankings |-> rankings[i].ranking], k)

weightedRRF(rankings, k) == SortDesc(RrfAll(rankings, k, <<>>))

RECURSIVE FilterMinScore(_, _)
FilterMinScore(seq, minScore) ==
    IF seq = <<>> THEN <<>>
    ELSE IF RatLess(Head(seq).score, minScore) THEN FilterMinScore(Tail(seq), minScore)
         ELSE <<Head(seq)>> \o FilterMinScore(Tail(seq), minScore)

Tagged(seq, matchType) ==
    [i \in DOMAIN seq |->
       [memory |-> seq[i].memory, score |-> seq[i].score, matchType |-> matchType]]

DefaultOptions(limit) ==
    [limit |-> limit, bm25Weight |-> 1, vectorWeight |-> 1, minScore |-> Rat(0, 1)]

\* hybridSearch up to the choice of its branch: the ranking the branch
\* returns from and the matchType it tags with; provider tells whether the
\* vector ranking is fetched
hybridCandidates(query, mem, index, provider, options) ==
    LET bm25Results == searchBM25(mem, index, query, options.limit * 2)
        vectorResults == IF provider
                         THEN searchVector(mem, embed(query), options.limit * 2)
                         ELSE <<>>
        fused == weightedRRF(<<[ranking |-> bm25Results, weight |-> options.bm25Weight],
                               [ranking |-> vectorResults, weight |-> options.vectorWeight]>>,
                             DEFAULT_CONFIG.k)
        fusedItems == [i \in DOMAIN fused |->
                         [memory |-> fused[i].item.memory, score |-> fused[i].score]]
    IN  IF Len(vectorResults) = 0
        THEN [ranking |-> bm25Results, matchType |-> "bm25"]
        ELSE IF Len(bm25Results) = 0
        THEN [ranking |-> vectorResults, matchType |-> "vector"]
        ELSE [ranking |-> fusedItems, matchType |-> "hybrid"]

\* hybridSearch once the query embedding is known: in each branch
\* .slice(0, limit), then .filter(score >= minScore), then the tag
hybridSearch(query, mem, index, provider, options) ==
    LET c == hybridCandidates(query, mem, index, provider, options)
    IN  Tagged(FilterMinScore(Take(c.ranking, options.limit), options.minScore),
               c.matchType)

\* MemoryStore.searchBM25: the backend's results, tagged
MemoryStore_searchBM25(mem, index, query, limit) ==
    Tagged(searchBM25(mem, index, query, limit), "bm25")

\* MemoryStore.searchVector, once the query embedding is known
MemoryStore_searchVector(mem, query, limit) ==
    Tagged(searchVector(mem, embed(query), limit), "vector")

(***************************************************************************)
(* Calls of the pure functions: rank fusion and cosine similarity.         *)
(***************************************************************************)
\* ids of the items that are ranked; getId is item.memory.id
RankIds == <<"a", "b", "c", "d">>

RankItem(id) == [memory |-> [id |-> id]]

AsRanking(ids) == [i \in DOMAIN ids |-> RankItem(ids[i])]

RankSeqs == UNION {[1..n -> {RankIds[j] : j \in DOMAIN RankIds}] : n \in 0..MaxRanking}

\* the ids are named in the order in which they first occur: the fusion
\* reads an id only to tell it from another
FirstOccurrenceOrdered(ids) ==
    \A i \in DOMAIN ids, j \in 2..Len(RankIds) :
       ids[i] = RankIds[j] => \E h \in 1..(i - 1) : ids[h] = RankIds[j - 1]

\* the arguments `rankings`: none, one or two rankings
RankingLists ==
    {<<>>}
    \cup {<<AsRanking(r)>> : r \in {x \in RankSeqs : FirstOccurrenceOrdered(x)}}
    \cup {<<AsRanking(p[1]), AsRanking(p[2])>> :
            p \in {x \in RankSeqs \X RankSeqs : FirstOccurrenceOrdered(x[1] \o x[2])}}

\* values of config.k
Ks == {0, 1, 60}

\* weights of a ranking
Weights == {0, 1, 2}

\* components of the vectors
Components == {0 - 1, 0, 1}

Vectors == UNION {[1..n -> Components] : n \in 0..MaxDim}

NoCalc ==
    [fn |-> "none", rankings |-> <<>>, weights |-> <<>>, k |-> 0,
     a |-> <<>>, b |-> <<>>, done |-> FALSE, out |-> <<>>, sim |-> Rat(0, 1)]

RrfCall(rankings, k) ==
    [NoCalc EXCEPT !.fn = "reciprocalRankFusion", !.rankings = rankings, !.k = k]

WeightedCall(rankings, weights, k) ==
    [NoCalc EXCEPT !.fn = "weightedRRF", !.rankings = rankings, !.weights = weights,
                   !.k = k]

CosineCall(a, b) == [NoCalc EXCEPT !.fn = "cosineSimilarity", !.a = a, !.b = b]

(***************************************************************************)
(* What a reader sees while the addBatch transaction runs.                 *)
(***************************************************************************)
\* (statements run outside a transaction: each is visible at once)
ReadViewUncommitted(committed, working) == working

\* db.transaction: the statements of the transaction function are applied
\* to the transaction's own view, readers keep the committed snapshot
ReadView(committed, working) == committed

VisibleMem == IF tx.pc = "running" THEN ReadView(memories, tx.mem) ELSE memories

VisibleFts == IF tx.pc = "running" THEN ReadView(fts, tx.fts) ELSE fts

AllIds == CustomIds \cup {UuidPool[n] : n \in DOMAIN UuidPool}

EmbedOptions == {"default", "true", "false"}

Batches == UNION {[1..n -> Items] : n \in 0..MaxBatch}

IdsOf(seq) == {seq[i].id : i \in DOMAIN seq}

StoredIds(mem) == {r.id : r \in mem}

\* crypto.randomUUID(): an id that no memory in existence carries; the model
\* names it by the first unused number
randomUUID(used) ==
    UuidPool[CHOOSE n \in DOMAIN UuidPool :
                UuidPool[n] \notin used /\ \A m \in 1..(n - 1) : UuidPool[m] \in used]

RECURSIVE randomUUIDs(_, _)
randomUUIDs(used, n) ==
    IF n = 0 THEN <<>>
    ELSE LET id == randomUUID(used)
         IN  <<id>> \o randomUUIDs(used \cup {id}, n - 1)

UuidsLeft(used) == Cardinality({n \in DOMAIN UuidPool : UuidPool[n] \notin used})

(***************************************************************************)
(* Initial state: a store that has just been constructed.                  *)
(***************************************************************************)
Init ==
    /\ dbOpen = TRUE
    /\ closeCalled = FALSE
    /\ hasProvider \in BOOLEAN
    /\ memories = {}
    /\ fts = {}
    /\ tx = TxIdle
    /\ readerSaw = <<>>
    /\ last = NoCall
    /\ calc = NoCalc

\* a call of one of the pure functions is about to be made
InitCalc ==
    /\ dbOpen = TRUE
    /\ closeCalled = FALSE
    /\ hasProvider = FALSE
    /\ memories = {}
    /\ fts = {}
    /\ tx = TxIdle
    /\ readerSaw = <<>>
    /\ last = NoCall
    /\ \/ \E rs \in RankingLists, k \in Ks : calc = RrfCall(rs, k)
       \/ \E rs \in RankingLists, w1 \in Weights, w2 \in Weights :
             Len(rs) = 2 /\ calc = WeightedCall(rs, <<w1, w2>>, DEFAULT_CONFIG.k)
       \/ \E a \in Vectors, b \in Vectors : calc = CosineCall(a, b)

(***************************************************************************)
(* MemoryStore: the writing calls.  The calls on one store run in one      *)
(* process, so none starts while the synchronous transaction of addBatch   *)
(* is running.                                                             *)
(***************************************************************************)
Faults == {"none", "provider", "storage"}

\* (the memory is written first and its embedding is awaited afterwards)
embedThrowsAfterWrite(mem, index, memory) ==
    InsertOrReplace(mem, index, [memory EXCEPT !.embedding = JsUndefined])

\* add awaits provider.embed before it builds and writes the memory: when
\* embed throws, the table and the index are as they were
embedThrows(mem, index, memory) == [mem |-> mem, fts |-> index]

\* (the provider called whenever embed is asked for)
computesEmbeddingWhenAsked(embedOpt, provider) ==
    IF embedOpt = "default" THEN provider ELSE embedOpt = "true"

\* `embed && this.embeddingProvider`, where embed defaults to
\* !!this.embeddingProvider: whether add and addBatch call the provider
computesEmbedding(embedOpt, provider) ==
    (IF embedOpt = "default" THEN provider ELSE embedOpt = "true") /\ provider

\* MemoryStore.add(content, metadata, {id, embed}); idOpt is <<>> when no
\* id is given; at is the value of Date.now(); fault says whether the
\* provider call or the statement fails
addWithin(content, metadata, idOpt, embedOpt, at, fault, maxRowid) ==
    /\ tx.pc = "idle"
    /\ idOpt = <<>> => UuidsLeft(StoredIds(memories)) > 0
    /\ LET id == IF idOpt = <<>> THEN randomUUID(StoredIds(memories)) ELSE idOpt[1]
           doEmbed == computesEmbedding(embedOpt, hasProvider)
           memory == [id |-> id,
                      content |-> content,
                      embedding |-> IF doEmbed THEN JsVal(embed(content)) ELSE JsUndefined,
                      metadata |-> metadata,
                      createdAt |-> at,
                      updatedAt |-> JsUndefinedInt]
           existed == \E r \in memories : r.id = id
           w == InsertOrReplace(memories, fts, memory)
       IN  IF fault = "provider"
           THEN /\ doEmbed
                /\ last' = Call("add", "provider", <<>>, FALSE, <<>>)
                /\ memories' = embedThrows(memories, fts, memory).mem
                /\ fts' = embedThrows(memories, fts, memory).fts
           ELSE IF ~dbOpen
           THEN /\ last' = Call("add", "closed", <<>>, FALSE, <<>>)
                /\ UNCHANGED <<memories, fts>>
           ELSE IF fault = "storage"
           THEN /\ last' = Call("add", "storage", <<>>, FALSE, <<>>)
                /\ UNCHANGED <<memories, fts>>
           ELSE /\ NewRowid(memories) <= maxRowid
                /\ memories' = w.mem
                /\ fts' = w.fts
                /\ last' = Call("add", "none", <<id>>, existed, <<memory>>)
    /\ UNCHANGED <<dbOpen, closeCalled, hasProvider, calc, tx, readerSaw>>

\* add on a table whose rowids the model keeps up to MaxRowid
add(content, metadata, idOpt, embedOpt, at, fault) ==
    addWithin(content, metadata, idOpt, embedOpt, at, fault, MaxRowid)

\* MemoryStore.addBatch up to the start of the backend's transaction
\* (the embeddings come from embedBatch when the provider has it and from
\* embed per item otherwise: they are computed when embed is asked for and
\* there is a provider); the record of the last call shows the call as
\* running until it returns or throws
addBatch(items, embedOpt, at, fault) ==
    /\ tx.pc = "idle"
    /\ LET called == computesEmbedding(embedOpt, hasProvider)
           ids == randomUUIDs(StoredIds(memories), Len(items))
           batch == [i \in DOMAIN items |->
                       [id |-> ids[i],
                        content |-> items[i].content,
                        embedding |-> IF called THEN JsVal(embed(items[i].content))
                                      ELSE JsUndefined,
                        metadata |-> items[i].metadata,
                        createdAt |-> at,
                        updatedAt |-> JsUndefinedInt]]
       IN  IF fault = "provider"
           THEN /\ called
                /\ last' = Call("addBatch", "provider", <<>>, FALSE, <<>>)
                /\ UNCHANGED <<tx, readerSaw>>
           ELSE IF ~dbOpen
           THEN /\ last' = Call("addBatch", "closed", <<>>, FALSE, <<>>)
                /\ UNCHANGED <<tx, readerSaw>>
           ELSE /\ Len(items) <= UuidsLeft(StoredIds(memories))
                /\ NewRowid(memories) + Len(items) - 1 <= MaxRowid
                /\ tx' = [pc |-> "running", items |-> batch, i |-> 1,
                          mem |-> memories, fts |-> fts]
                /\ readerSaw' = <<>>
                /\ last' = Call("addBatch", "running", ids, FALSE, <<>>)
    /\ UNCHANGED <<dbOpen, closeCalled, hasProvider, calc, memories, fts>>

\* one stmt.run of the transaction function; a failing statement throws
\* and the transaction is rolled back
addBatchStep(writeOk) ==
    /\ tx.pc = "running"
    /\ tx.i <= Len(tx.items)
    /\ IF writeOk
       THEN LET w == InsertOrReplace(tx.mem, tx.fts, tx.items[tx.i])
            IN  /\ tx' = [tx EXCEPT !.i = @ + 1, !.mem = w.mem, !.fts = w.fts]
                /\ UNCHANGED <<last, readerSaw>>
       ELSE /\ tx' = TxIdle
            /\ readerSaw' = <<>>
            /\ last' = Call("addBatch", "storage",
                            [i \in DOMAIN tx.items |-> tx.items[i].id], FALSE, <<>>)
    /\ UNCHANGED <<dbOpen, closeCalled, hasProvider, calc, memories, fts>>

\* the transaction function has returned: COMMIT, and addBatch returns
addBatchCommit ==
    /\ tx.pc = "running"
    /\ tx.i > Len(tx.items)
    /\ memories' = tx.mem
    /\ fts' = tx.fts
    /\ tx' = TxIdle
    /\ readerSaw' = <<>>
    /\ last' = Call("addBatch", "none", [i \in DOMAIN tx.items |-> tx.items[i].id],
                    FALSE, tx.items)
    /\ UNCHANGED <<dbOpen, closeCalled, hasProvider, calc>>

\* a reader on another connection lists the table while the transaction of
\* addBatch runs
ConcurrentRead ==
    /\ tx.pc = "running"
    /\ readerSaw' = <<IdsOf(list(VisibleMem, 0)) \cap IdsOf(tx.items)>>
    /\ UNCHANGED <<dbOpen, closeCalled, hasProvider, calc, memories, fts,
                   tx, last>>

\* MemoryStore.delete(id)
delete(id) ==
    /\ tx.pc = "idle"
    /\ IF ~dbOpen
       THEN /\ last' = Call("delete", "closed", <<id>>, FALSE, <<>>)
            /\ UNCHANGED <<memories, fts>>
       ELSE LET w == DeleteRow(memories, fts, id)
            IN  /\ memories' = w.mem
                /\ fts' = w.fts
                /\ last' = Call("delete", "none", <<id>>, id \in StoredIds(memories), <<>>)
    /\ UNCHANGED <<dbOpen, closeCalled, hasProvider, calc, tx, readerSaw>>

\* (a close that leaves the connection open)
db_closeNoop(open) == open

\* this.db.close(): the connection is closed, whatever it was
db_close(open) == FALSE

\* MemoryStore.close()
close ==
    /\ tx.pc = "idle"
    /\ dbOpen' = db_close(dbOpen)
    /\ closeCalled' = TRUE
    /\ last' = Call("close", "none", <<>>, FALSE, <<>>)
    /\ UNCHANGED <<hasProvider, calc, memories, fts, tx, readerSaw>>

(***************************************************************************)
(* MemoryStore: the reading calls.  A statement is prepared first, which   *)
(* throws when the connection is not open.  A reading call changes nothing *)
(* but the record of the last call; what it returns is the value of the    *)
(* backend operator of the same name on the visible state.                 *)
(***************************************************************************)
\* (a reading call that rebuilds the full-text index from nothing)
ReadFrameClearsIndex ==
    /\ tx.pc = "idle"
    /\ fts' = {}
    /\ UNCHANGED <<dbOpen, closeCalled, hasProvider, calc, memories, tx, readerSaw>>

ReadFrame ==
    /\ tx.pc = "idle"
    /\ UNCHANGED <<dbOpen, closeCalled, hasProvider, calc, memories, fts, tx,
                   readerSaw>>

\* MemoryStore.get(id)
Get(id) ==
    /\ last' = IF ~dbOpen THEN Call("get", "closed", <<>>, FALSE, <<>>)
               ELSE Call("get", "none", <<>>, FALSE, <<>>)
    /\ ReadFrame

\* MemoryStore.list(limit); limit 0 stands for the call without a limit
List(limit) ==
    /\ last' = IF ~dbOpen THEN Call("list", "closed", <<>>, FALSE, <<>>)
               ELSE Call("list", "none", <<>>, FALSE, <<>>)
    /\ ReadFrame

\* MemoryStore.getStats()
GetStats ==
    /\ last' = IF ~dbOpen THEN Call("getStats", "closed", <<>>, FALSE, <<>>)
               ELSE Call("getStats", "none", <<>>, FALSE, <<>>)
    /\ ReadFrame

\* MemoryStore.searchBM25(query, limit)
SearchBM25(query, limit) ==
    /\ last' = IF ~dbOpen THEN Call("searchBM25", "closed", <<>>, FALSE, <<>>)
               ELSE Call("searchBM25", "none", <<>>, FALSE, <<>>)
    /\ ReadFrame

\* (the backend asked before the provider is looked at)
SearchVectorBackendFirst(query, limit, embedOk) ==
    /\ last' = IF ~dbOpen THEN Call("searchVector", "closed", <<>>, FALSE, <<>>)
               ELSE IF ~hasProvider
               THEN Call("searchVector", "unsupported", <<>>, FALSE, <<>>)
               ELSE IF ~embedOk THEN Call("searchVector", "provider", <<>>, FALSE, <<>>)
               ELSE Call("searchVector", "none", <<>>, FALSE, <<>>)
    /\ ReadFrame

\* MemoryStore.searchVector(query, limit)
SearchVector(query, limit, embedOk) ==
    /\ last' = IF ~hasProvider THEN Call("searchVector", "unsupported", <<>>, FALSE, <<>>)
               ELSE IF ~embedOk THEN Call("searchVector", "provider", <<>>, FALSE, <<>>)
               ELSE IF ~dbOpen THEN Call("searchVector", "closed", <<>>, FALSE, <<>>)
               ELSE Call("searchVector", "none", <<>>, FALSE, <<>>)
    /\ ReadFrame

\* MemoryStore.search(query, {limit}): hybridSearch
Search(query, limit, embedOk) ==
    /\ last' = IF ~dbOpen THEN Call("search", "closed", <<>>, FALSE, <<>>)
               ELSE IF hasProvider /\ ~embedOk
               THEN Call("search", "provider", <<>>, FALSE, <<>>)
               ELSE Call("search", "none", <<>>, FALSE, <<>>)
    /\ ReadFrame

(***************************************************************************)
(* The MCP server: one JSON-RPC request per line of its input.  A string   *)
(* is the sequence of its tokens, " " being white space; the strings that  *)
(* pass validation here hold no white space.                               *)
(***************************************************************************)
Undefined == [t |-> "undefined", v |-> <<>>]

Str(s) == [t |-> "string", v |-> s]

Num(n) == [t |-> "number", v |-> n]

Arr(a) == [t |-> "array", v |-> a]

\* !s.trim()
IsBlank(s) == \A i \in DOMAIN s : s[i] = " "

\* the arguments object of a tools/call; a key that is absent is undefined
NoArgs ==
    [query |-> Undefined, limit |-> Undefined, content |-> Undefined,
     topics |-> Undefined, source |-> Undefined, days |-> Undefined,
     minConfidence |-> Undefined, includeOpenClaw |-> Undefined,
     openclawAgent |-> Undefined]

\* validateArgs: the code of the first check that fails, "" standing for null
validateArgs(name, args) ==
    IF name = "engram.search"
    THEN IF args.query.t # "string" \/ IsBlank(args.query.v) THEN "missing_query"
         ELSE IF args.limit.t \notin {"undefined", "number"} THEN "invalid_limit"
         ELSE ""
    ELSE IF name = "engram.add"
    THEN IF args.content.t # "string" \/ IsBlank(args.content.v) THEN "missing_content"
         ELSE IF args.topics.t \notin {"undefined", "array"} THEN "invalid_topics"
         ELSE IF args.source.t \notin {"undefined", "string"} THEN "invalid_source"
         ELSE ""
    ELSE IF name = "engram.ingestGit"
    THEN IF args.days.t \notin {"undefined", "number"} THEN "invalid_days" ELSE ""
    ELSE IF name = "engram.summarize"
    THEN IF args.days.t \notin {"undefined", "number"} THEN "invalid_days"
         ELSE IF args.minConfidence.t \notin {"undefined", "number"}
         THEN "invalid_min_confidence"
         ELSE IF args.includeOpenClaw.t \notin {"undefined", "boolean"}
         THEN "invalid_include_openclaw"
         ELSE IF args.openclawAgent.t \notin {"undefined", "string"}
         THEN "invalid_openclaw_agent"
         ELSE ""
    ELSE ""

\* describeValidationError: the text for a code
describeValidationError(code) == <<"description of", code>>

\* a tool result {error?, message?, ...}: "" and <<>> stand for an absent key
ToolResult(error, message, data) == [error |-> error, message |-> message, data |-> data]

\* the metadata {topics, source, workspace} that engram.add and
\* engram.ingestGit store
ToolMetadata(topics, source) ==
    [t |-> "object",
     kv |-> << <<"topics", topics>>, <<"source", source>>, <<"workspace", "\"/ws\"">> >>]

\* store.add of a MemoryStore without a provider
StoreAdd(mem, index, content, metadata, at) ==
    InsertOrReplace(mem, index,
                    [id |-> randomUUID(StoredIds(mem)),
                     content |-> content,
                     embedding |-> JsUndefined,
                     metadata |-> metadata,
                     createdAt |-> at,
                     updatedAt |-> JsUndefinedInt])

\* (the store created before the arguments are validated)
handleToolCallOpensFirst(name, args, mem, index, env, at) ==
    [result |-> IF validateArgs(name, args) # ""
                THEN ToolResult(validateArgs(name, args),
                                describeValidationError(validateArgs(name, args)), <<>>)
                ELSE ToolResult("unknown_tool", <<>>, <<>>),
     threw |-> FALSE, opened |-> TRUE, mem |-> mem, fts |-> index]

\* handleToolCall: the tool's result, whether the call threw, whether a
\* MemoryStore was created, and the table and the index afterwards; env is
\* what the environment of engram.ingestGit and engram.summarize gives and
\* at the value of Date.now()
handleToolCall(name, args, mem, index, env, at) ==
    LET validationError == validateArgs(name, args)
        kept(result) == [result |-> result, threw |-> FALSE, opened |-> TRUE,
                         mem |-> mem, fts |-> index]
        added(w, result) == [result |-> result, threw |-> FALSE, opened |-> TRUE,
                             mem |-> w.mem, fts |-> w.fts]
    IN  IF validationError # ""
        THEN [result |-> ToolResult(validationError,
                                    describeValidationError(validationError), <<>>),
              threw |-> FALSE, opened |-> FALSE, mem |-> mem, fts |-> index]
        ELSE IF name = "engram.search"
        THEN LET limit == IF args.limit.t = "number" THEN args.limit.v ELSE 10
                 results == MemoryStore_searchBM25(mem, index, args.query.v, limit)
             IN  kept(ToolResult("", <<>>,
                                 [i \in DOMAIN results |->
                                    [content |-> results[i].memory.content,
                                     score |-> results[i].score,
                                     metadata |-> results[i].memory.metadata]]))
        ELSE IF name = "engram.add"
        THEN LET topics == IF args.topics.t = "array" THEN "[]" ELSE "undefined"
                 source == IF args.source.t = "string" THEN "\"given\"" ELSE "\"manual\""
                 w == StoreAdd(mem, index, args.content.v, ToolMetadata(topics, source), at)
             IN  added(w, ToolResult("", <<>>, <<randomUUID(StoredIds(mem)), at>>))
        ELSE IF name = "engram.stats"
        THEN kept(ToolResult("", <<>>, <<getStats(mem)>>))
        ELSE IF name = "engram.ingestGit"
        THEN IF env = "not_a_git_repo" \/ env = "no_commits"
             THEN kept(ToolResult("", <<>>, <<FALSE, env>>))
             ELSE LET w == StoreAdd(mem, index, <<"gitlog">>,
                                    ToolMetadata("[\"gitlog\"]", "\"gitlog\""), at)
                  IN  added(w, ToolResult("", <<>>, <<TRUE, randomUUID(StoredIds(mem))>>))
        ELSE IF name = "engram.summarize"
        THEN IF env = "missing_oauth"
             THEN kept(ToolResult("missing_oauth", <<"Open Claude Code and sign in.">>, <<>>))
             ELSE IF env = "api_error"
             THEN [kept(ToolResult("", <<>>, <<>>)) EXCEPT !.threw = TRUE]
             ELSE kept(ToolResult("", <<>>, <<"learnings">>))
        ELSE kept(ToolResult("unknown_tool", <<>>, <<>>))

\* what the environment can give a tool
Envs(name) ==
    IF name = "engram.ingestGit" THEN {"not_a_git_repo", "no_commits", "commits"}
    ELSE IF name = "engram.summarize" THEN {"missing_oauth", "api_error", "sessions"}
    ELSE {"none"}

\* whether handleToolCall gets as far as store.add
ToolAdds(name, args, env) ==
    /\ validateArgs(name, args) = ""
    /\ name = "engram.add" \/ (name = "engram.ingestGit" /\ env = "commits")

\* the requests of the model: ids, methods, tool names and arguments
RequestIds == {SqlNullInt, SqlInt(7)}

ToolArguments(name) ==
    IF name = "engram.search"
    THEN {[NoArgs EXCEPT !.query = q, !.limit = l] :
            q \in {Undefined, Str(<<" ">>), Str(<<"a">>), Num(1)},
            l \in {Undefined, Num(1), Str(<<"a">>)}}
    ELSE IF name = "engram.add"
    THEN {[NoArgs EXCEPT !.content = c, !.topics = t, !.source = s] :
            c \in {Undefined, Str(<<" ">>), Str(<<"a">>)},
            t \in {Undefined, Arr(<<>>), Str(<<"a">>)},
            s \in {Undefined, Num(1)}}
    ELSE IF name = "engram.ingestGit"
    THEN {[NoArgs EXCEPT !.days = d] : d \in {Undefined, Str(<<"a">>)}}
    ELSE IF name = "engram.summarize"
    THEN {NoArgs,
          [NoArgs EXCEPT !.days = Str(<<"a">>)],
          [NoArgs EXCEPT !.minConfidence = Str(<<"a">>)],
          [NoArgs EXCEPT !.includeOpenClaw = Str(<<"a">>)],
          [NoArgs EXCEPT !.openclawAgent = Num(1)],
          [NoArgs EXCEPT !.minConfidence = Str(<<"a">>), !.openclawAgent = Num(1)]}
    ELSE {NoArgs}

ToolNames == {"engram.search", "engram.add", "engram.stats", "engram.ingestGit",
              "engram.summarize", "engram.other"}

Requests ==
    UNION {{[id |-> id, method |-> "tools/call", name |-> name, arguments |-> args] :
              id \in RequestIds, args \in ToolArguments(name)} : name \in ToolNames}
    \cup {[id |-> id, method |-> m, name |-> "", arguments |-> NoArgs] :
            id \in RequestIds, m \in {"initialize", "tools/list", "tools/call", "other"}}

\* the server between two lines: its option wrapErrors, the last request
\* and the response written for it (<<>> when none was written)
Served(wrapErrors, req, response, opened) ==
    [fn |-> "mcp", wrapErrors |-> wrapErrors, req |-> req, response |-> response,
     opened |-> opened]

\* a response {jsonrpc, id, result} or {jsonrpc, id, error: {code, message}}
Response(id, result, error) == <<[id |-> id, result |-> result, error |-> error]>>

\* the result written for a tool result: wrapped when wrapErrors is on and
\* the result has an error string
Written(wrapErrors, result) ==
    IF wrapErrors /\ result.error # ""
    THEN [ok |-> FALSE,
          error |-> [code |-> result.error,
                     message |-> IF result.message = <<>> THEN <<result.error>>
                                 ELSE result.message]]
    ELSE result

\* a server has been started on a workspace without memories; the store is
\* opened by handleToolCall only and closed when it returns
InitMcp ==
    /\ dbOpen = FALSE
    /\ closeCalled = FALSE
    /\ hasProvider = FALSE
    /\ memories = {}
    /\ fts = {}
    /\ tx = TxIdle
    /\ readerSaw = <<>>
    /\ last = NoCall
    /\ \E wrapErrors \in BOOLEAN : calc = Served(wrapErrors, <<>>, <<>>, FALSE)

\* rl.on('line'): the handler of one request
OnLine(req, env, at) ==
    /\ calc.fn = "mcp"
    /\ (req.method = "tools/call" /\ ToolAdds(req.name, req.arguments, env))
          => /\ UuidsLeft(StoredIds(memories)) > 0
             /\ NewRowid(memories) <= MaxRowid
    /\ IF req.method = "tools/call" /\ req.name # ""
       THEN LET call == handleToolCall(req.name, req.arguments, memories, fts, env, at)
            IN  /\ memories' = call.mem
                /\ fts' = call.fts
                /\ calc' = Served(calc.wrapErrors, <<req>>,
                                  IF call.threw
                                  THEN Response(req.id, <<>>, "Tool call failed")
                                  ELSE Response(req.id,
                                                <<Written(calc.wrapErrors, call.result)>>,
                                                ""),
                                  call.opened)
       ELSE /\ UNCHANGED <<memories, fts>>
            /\ calc' = Served(calc.wrapErrors, <<req>>,
                              IF req.method = "tools/call"
                              THEN Response(req.id, <<>>, "Missing tool name")
                              ELSE IF req.method \in {"initialize", "tools/list"}
                              THEN Response(req.id, <<req.method>>, "")
                              ELSE IF req.id.null THEN <<>>
                              ELSE Response(req.id, <<>>, "Unknown method"),
                              FALSE)
    /\ UNCHANGED <<dbOpen, closeCalled, hasProvider, tx, readerSaw, last>>

NextMcp ==
    \E req \in Requests, at \in Instant :
       \E env \in Envs(req.name) : OnLine(req, env, at)

SpecMcp == InitMcp /\ [][NextMcp]_vars

(***************************************************************************)
(* getAnthropicOAuthToken: the credentials of the keychain or of the       *)
(* credentials file, refreshed when they are about to expire.  A text is   *)
(* the sequence of its parts.                                              *)
(***************************************************************************)
\* Date.now() at the call, in milliseconds
Now == 1000000

\* values of expiresAt
ExpiresAts ==
    {0, Now - 1000, Now + 5 * 60 * 1000, Now + 5 * 60 * 1000 + 1, Now + 3600000}

\* what a source holds: nothing, a text that is not the JSON looked for, or
\* {claudeAiOauth: {accessToken, refreshToken, expiresAt}}
Entry(kind, accessToken, refreshToken, expiresAt) ==
    [kind |-> kind, accessToken |-> accessToken, refreshToken |-> refreshToken,
     expiresAt |-> expiresAt]

Entries(source) ==
    {Entry("missing", "", "", 0), Entry("garbage", "", "", 0)}
    \cup {Entry("oauth", a, r, e) :
            a \in {"", source}, r \in {"", "refresh-token"}, e \in ExpiresAts}

\* null, and a ClaudeCredential
NoCredential == <<>>

ClaudeCredential(access, refresh, expires) ==
    <<[access |-> access, refresh |-> refresh, expires |-> expires]>>

\* the checks that readFromKeychain and readFromFile make on what they read
ParseCredential(entry) ==
    IF entry.kind # "oauth" THEN NoCredential
    ELSE IF entry.accessToken = "" THEN NoCredential
    ELSE IF entry.refreshToken = "" THEN NoCredential
    ELSE IF entry.expiresAt <= 0 THEN NoCredential
    ELSE ClaudeCredential(entry.accessToken, entry.refreshToken, entry.expiresAt)

readFromKeychain(platform, entry) ==
    IF platform # "darwin" THEN NoCredential ELSE ParseCredential(entry)

readFromFile(entry) == ParseCredential(entry)

\* readFromKeychain() ?? readFromFile()
readClaudeCredentials(platform, keychain, file) ==
    IF readFromKeychain(platform, keychain) # NoCredential
    THEN readFromKeychain(platform, keychain)
    ELSE readFromFile(file)

\* (a check without the five minutes of margin)
isValidNoBuffer(creds, now) == creds.expires > now

isValid(creds, now) == creds.expires > now + 5 * 60 * 1000

\* what the token endpoint does with the request
Responses ==
    {[kind |-> "rejected", text |-> "fetch failed", access_token |-> "", expires_in |-> 0],
     [kind |-> "not ok", text |-> "invalid_grant", access_token |-> "", expires_in |-> 0],
     [kind |-> "no json", text |-> "Unexpected token", access_token |-> "", expires_in |-> 0],
     [kind |-> "ok", text |-> "", access_token |-> "refreshed-token", expires_in |-> 3600],
     [kind |-> "ok", text |-> "", access_token |-> "refreshed-token", expires_in |-> 0]}

\* refreshAnthropicToken once fetch has settled: the new credential, or
\* the message of the error thrown
refreshAnthropicToken(response, now) ==
    IF response.kind = "ok"
    THEN [threw |-> FALSE, message |-> <<>>,
          creds |-> ClaudeCredential(response.access_token, "new-refresh-token",
                                     now + response.expires_in * 1000 - 5 * 60 * 1000)]
    ELSE [threw |-> TRUE,
          message |-> IF response.kind = "not ok"
                      THEN <<"OAuth refresh failed: ", response.text>>
                      ELSE <<response.text>>,
          creds |-> NoCredential]

\* an OAuthResult
OAuthOk(token) == <<[ok |-> TRUE, token |-> token, error |-> <<>>]>>

OAuthError(error) == <<[ok |-> FALSE, token |-> "", error |-> error]>>

\* one call of getAnthropicOAuthToken: the environment it runs in, where it
\* is, the requests made to the token endpoint and what it returned
TokenCall(platform, keychain, file, now) ==
    [fn |-> "getAnthropicOAuthToken", platform |-> platform, keychain |-> keychain,
     file |-> file, now |-> now, pc |-> "called", fetches |-> <<>>,
     response |-> <<>>, result |-> <<>>]

InitOAuth ==
    /\ dbOpen = TRUE
    /\ closeCalled = FALSE
    /\ hasProvider = FALSE
    /\ memories = {}
    /\ fts = {}
    /\ tx = TxIdle
    /\ readerSaw = <<>>
    /\ last = NoCall
    /\ \E platform \in {"darwin", "linux"},
          keychain \in Entries("keychain-token"), file \in Entries("file-token") :
          calc = TokenCall(platform, keychain, file, Now)

\* getAnthropicOAuthToken up to its return or to the await of the refresh
getAnthropicOAuthToken ==
    /\ calc.fn = "getAnthropicOAuthToken"
    /\ calc.pc = "called"
    /\ LET creds == readClaudeCredentials(calc.platform, calc.keychain, calc.file)
       IN  IF creds = NoCredential
           THEN calc' = [calc EXCEPT
                           !.pc = "returned",
                           !.result = OAuthError(<<"No Claude Code credentials found. ",
                                                   "Checked: ...">>)]
           ELSE IF isValid(creds[1], calc.now)
           THEN calc' = [calc EXCEPT !.pc = "returned",
                                     !.result = OAuthOk(creds[1].access)]
           ELSE calc' = [calc EXCEPT !.pc = "refreshing",
                                     !.fetches = Append(@, creds[1].refresh)]
    /\ UNCHANGED StoreVars

\* the request to the token endpoint settles and getAnthropicOAuthToken
\* goes on to its return
RefreshSettles(response) ==
    /\ calc.fn = "getAnthropicOAuthToken"
    /\ calc.pc = "refreshing"
    /\ LET refreshed == refreshAnthropicToken(response, calc.now)
       IN  calc' = [calc EXCEPT
                      !.pc = "returned",
                      !.response = <<response>>,
                      !.result = IF refreshed.threw
                                 THEN OAuthError(<<"OAuth refresh failed: ">>
                                                    \o refreshed.message)
                                 ELSE OAuthOk(refreshed.creds[1].access)]
    /\ UNCHANGED StoreVars

NextOAuth ==
    \/ getAnthropicOAuthToken
    \/ \E response \in Responses : RefreshSettles(response)

SpecOAuth == InitOAuth /\ [][NextOAuth]_vars

(***************************************************************************)
(* The specification.                                                      *)
(***************************************************************************)
\* the calls on the store, with Date.now() drawn from times
NextAt(times) ==
    \/ \E in \in AddInputs, idOpt \in {<<>>} \cup {<<id>> : id \in CustomIds},
          embedOpt \in EmbedOptions, at \in times, fault \in Faults :
          add(in.content, in.metadata, idOpt, embedOpt, at, fault)
    \/ \E items \in Batches, embedOpt \in EmbedOptions, at \in times,
          fault \in {"none", "provider"} :
          addBatch(items, embedOpt, at, fault)
    \/ \E writeOk \in BOOLEAN : addBatchStep(writeOk)
    \/ addBatchCommit
    \/ ConcurrentRead
    \/ \E id \in AllIds : delete(id)
    \/ close
    \/ \E id \in AllIds : Get(id)
    \/ \E limit \in {0} \cup Limits : List(limit)
    \/ GetStats
    \/ \E query \in Queries, limit \in Limits : SearchBM25(query, limit)
    \/ \E query \in Queries, limit \in Limits, embedOk \in BOOLEAN :
          SearchVector(query, limit, embedOk)
    \/ \E query \in Queries, limit \in Limits, embedOk \in BOOLEAN :
          Search(query, limit, embedOk)

Next == NextAt(Times)

CallReciprocalRankFusion ==
    /\ calc.fn = "reciprocalRankFusion"
    /\ ~calc.done
    /\ calc' = [calc EXCEPT !.done = TRUE,
                            !.out = reciprocalRankFusion(calc.rankings, calc.k)]
    /\ UNCHANGED StoreVars

CallWeightedRRF ==
    /\ calc.fn = "weightedRRF"
    /\ ~calc.done
    /\ calc' = [calc EXCEPT
                  !.done = TRUE,
                  !.out = weightedRRF([i \in DOMAIN calc.rankings |->
                                         [ranking |-> calc.rankings[i],
                                          weight |-> calc.weights[i]]],
                                      calc.k)]
    /\ UNCHANGED StoreVars

CallCosineSimilarity ==
    /\ calc.fn = "cosineSimilarity"
    /\ ~calc.done
    /\ calc' = [calc EXCEPT !.done = TRUE, !.sim = cosineSimilarity(calc.a, calc.b)]
    /\ UNCHANGED StoreVars

NextCalc ==
    \/ CallReciprocalRankFusion
    \/ CallWeightedRRF
    \/ CallCosineSimilarity

\* the store under add, delete and the search calls, all within one
\* millisecond and without faults: the states the searches are checked on
NextSearch ==
    \/ \E in \in AddInputs, idOpt \in {<<>>} \cup {<<id>> : id \in CustomIds},
          embedOpt \in EmbedOptions, at \in Instant :
          add(in.content, in.metadata, idOpt, embedOpt, at, "none")
    \/ \E id \in AllIds : delete(id)
    \/ \E query \in Queries, limit \in Limits : SearchBM25(query, limit)
    \/ \E query \in Queries, limit \in Limits : SearchVector(query, limit, TRUE)
    \/ \E query \in Queries, limit \in Limits : Search(query, limit, TRUE)

SpecSearch == Init /\ [][NextSearch]_vars

\* the store of the searchBM25 tests: texts added without embedding, under
\* a generated or a given id, deleted and searched
NextText ==
    \/ \E content \in Texts, idOpt \in {<<>>} \cup {<<id>> : id \in CustomIds},
          at \in Instant :
          addWithin(content, MetaEmpty, idOpt, "false", at, "none", MaxTextRowid)
    \/ \E id \in AllIds : delete(id)
    \/ \E query \in TextQueries, limit \in TextLimits : SearchBM25(query, limit)

SpecText == Init /\ [][NextText]_vars

\* the pure functions on every argument within the bounds
SpecCalc == InitCalc /\ [][NextCalc]_vars

Spec == Init /\ [][Next]_vars

\* the store when all calls fall in one millisecond: what does not depend
\* on the timestamps is checked here
NextInstant == NextAt(Instant)

SpecInstant == Init /\ [][NextInstant]_vars

TypeOK ==
    /\ dbOpen \in BOOLEAN
    /\ closeCalled \in BOOLEAN
    /\ tx.pc \in {"idle", "running"}
    /\ \A r \in memories : r.rowid \in 1..MaxRowid /\ r.created_at \in Times

(***************************************************************************)
(* What the reading calls return in the current state.                     *)
(***************************************************************************)
Range(seq) == {seq[i] : i \in DOMAIN seq}

MemoriesOf(results) == {results[i].memory : i \in DOMAIN results}

\* every memory some searchBM25, searchVector, search or list call returns
Returned ==
    UNION {MemoriesOf(searchBM25(VisibleMem, VisibleFts, q, l))
             \cup MemoriesOf(searchVector(VisibleMem, embed(q), l))
             \cup MemoriesOf(hybridSearch(q, VisibleMem, VisibleFts, hasProvider,
                                          DefaultOptions(l)))
           : <<q, l>> \in Queries \X Limits}
    \cup UNION {Range(list(VisibleMem, l)) : l \in {0} \cup Limits}

\* the step is a call that returned or threw (not a step inside addBatch)
CallEnds == <<last, memories>>' # <<last, memories>>

\* value equality of scores
RatEq(a, b) == ~RatLess(a, b) /\ ~RatLess(b, a)

IsNonIncreasing(results) ==
    \A i \in 1..(Len(results) - 1) : ~RatLess(results[i].score, results[i + 1].score)

\* values of options.minScore
MinScores == {Rat(0, 1), Rat(1, 100), Rat(1, 40), Rat(1, 1)}

\* values of options.bm25Weight and options.vectorWeight
WeightPairs == {<<1, 1>>, <<2, 1>>, <<0, 1>>}

\* embeddings given to the backend's searchVector
QueryEmbeddings == {<<1, 0>>, <<0, 1>>, <<3, 4>>, <<1>>}

Min(a, b) == IF a < b THEN a ELSE b

\* sum of weight / (k + r + 1) over the 0-based positions r of id in ranking
RECURSIVE RrfScoreIn(_, _, _, _, _)
RrfScoreIn(ranking, weight, k, id, n) ==
    IF n = 0 THEN Rat(0, 1)
    ELSE LET rest == RrfScoreIn(ranking, weight, k, id, n - 1)
         IN  IF ranking[n].memory.id = id THEN RatAdd(rest, Rat(weight, k + n))
             ELSE rest

\* the fused score of id: the sum over the rankings
RECURSIVE RrfScoreOf(_, _, _, _)
RrfScoreOf(rankings, k, id, n) ==
    IF n = 0 THEN Rat(0, 1)
    ELSE RatAdd(RrfScoreOf(rankings, k, id, n - 1),
                RrfScoreIn(rankings[n].ranking, rankings[n].weight, k, id,
                           Len(rankings[n].ranking)))

\* the ids that occur in some ranking
IdsIn(rankings) ==
    UNION {{rankings[n][j].memory.id : j \in DOMAIN rankings[n]} : n \in DOMAIN rankings}

IdsOfRanking(ranking) == {ranking[j].memory.id : j \in DOMAIN ranking}

DuplicateFree(ranking) ==
    \A i, j \in DOMAIN ranking : ranking[i].memory.id = ranking[j].memory.id => i = j

\* rankings with their weights
WithWeights(rankings, weights) ==
    [n \in DOMAIN rankings |-> [ranking |-> rankings[n], weight |-> weights[n]]]

Ones(rankings) == [n \in DOMAIN rankings |-> 1]

\* the entries of a fused list that hold id
EntriesOf(out, id) == {i \in DOMAIN out : out[i].id = id}

\* the score the fused list gives id
ScoreOf(out, id) == out[CHOOSE i \in DOMAIN out : out[i].id = id].score

\* what weightedRRF is said to do with the weights, but for the comparison
\* of two items at the same rank: every id of the rankings has one entry,
\* scored with the sum of weight / (k + r + 1) over its occurrences; a
\* ranking of weight 0 adds nothing; an id that only rankings of weight 0
\* hold has score 0
WeightedScores ==
    LET weighted == WithWeights(calc.rankings, calc.weights)
        without(n) == [weighted EXCEPT ![n].ranking = <<>>]
        ids == IdsIn(calc.rankings)
    IN  /\ Len(calc.out) = Cardinality(ids)
        /\ \A id \in ids :
              /\ Cardinality(EntriesOf(calc.out, id)) = 1
              /\ RatEq(ScoreOf(calc.out, id), RrfScoreOf(weighted, calc.k, id, 2))
              /\ \A n \in 1..2 :
                    calc.weights[n] = 0
                       => RatEq(ScoreOf(calc.out, id), RrfScoreOf(without(n), calc.k, id, 2))
              /\ (\A n \in 1..2 : id \in IdsOfRanking(calc.rankings[n]) => calc.weights[n] = 0)
                    => ScoreOf(calc.out, id).n = 0
        /\ IsNonIncreasing(calc.out)

\* of two items at rank r of rankings 1 and 2, the one whose ranking has
\* the larger weight scores strictly higher
HeavierScoresHigher ==
    \A r \in DOMAIN calc.rankings[1] \cap DOMAIN calc.rankings[2] :
       LET x == calc.rankings[1][r].memory.id
           y == calc.rankings[2][r].memory.id
       IN  /\ calc.weights[1] > calc.weights[2]
                => RatLess(ScoreOf(calc.out, y), ScoreOf(calc.out, x))
           /\ calc.weights[2] > calc.weights[1]
                => RatLess(ScoreOf(calc.out, x), ScoreOf(calc.out, y))

Disjoint(rankings) == IdsOfRanking(rankings[1]) \cap IdsOfRanking(rankings[2]) = {}

(***************************************************************************)
(* Claims.                                                                 *)
(***************************************************************************)

\* C1: every memory returned by searchBM25, searchVector, search or list is
\* the memory get returns for its id, and right after delete(id) has returned
\* no search or list returns a memory with that id.
C1_ReturnedResolveByGet ==
    /\ \A m \in Returned : get(VisibleMem, m.id) = <<m>>
    /\ (last.op = "delete" /\ last.err = "none")
          => \A m \in Returned : m.id # last.ids[1]

\* a delete of a stored id has returned and left memories that searches return
C1_Witness ==
    /\ last.op = "delete" /\ last.err = "none" /\ last.existed
    /\ Returned # {}
    /\ \E p \in fts : \A r \in memories : r.rowid # p[1]

\* C2: when an add replaces the memory stored under an id by one with another
\* content, afterwards every entry of the lexical index belongs to a content
\* version that is in the primary table (its rowid is a stored row whose
\* content has the term), and searchBM25 for a term of the replaced content
\* only does not return the id.
C2_NoStaleIndexEntry ==
    [][\A old \in memories :
          (/\ CallEnds /\ last'.op = "add" /\ last'.err = "none"
           /\ last'.ids[1] = old.id
           /\ last'.res[1].content # old.content)
             => /\ \A p \in fts' :
                      \E r \in memories' : r.rowid = p[1] /\ p[2] \in Terms(r.content)
                /\ \A t \in Terms(old.content) \ Terms(last'.res[1].content), l \in Limits :
                      \A m \in MemoriesOf(searchBM25(memories', fts', <<t>>, l)) :
                         m.id # old.id]_vars

\* C3: a reader between the steps of addBatch, or after it, sees none or all
\* of the batch's memories, also when a statement of the batch fails.
C3_BatchAllOrNothing ==
    /\ tx.pc = "running" =>
          LET batch == IdsOf(tx.items)
              seen == IdsOf(list(VisibleMem, 0)) \cap batch
              got == {id \in batch : get(VisibleMem, id) # <<>>}
          IN  /\ seen \in {{}, batch}
              /\ got \in {{}, batch}
              /\ getStats(VisibleMem).totalMemories
                    \in {Cardinality(memories), Cardinality(memories) + Cardinality(batch)}
              /\ readerSaw # <<>> => readerSaw[1] \in {{}, batch}
    /\ (last.op = "addBatch" /\ last.err = "storage")
          => \A i \in DOMAIN last.ids : get(VisibleMem, last.ids[i]) = <<>>
    /\ (last.op = "addBatch" /\ last.err = "none")
          => \A i \in DOMAIN last.ids : get(VisibleMem, last.ids[i]) # <<>>

\* a reader has listed the table after the first of two statements of a batch
C3_Witness ==
    /\ tx.pc = "running"
    /\ Len(tx.items) = 2
    /\ tx.i = 2
    /\ readerSaw # <<>>

\* C4: a call of add, addBatch or search in which the provider fails throws
\* and leaves the table, the index and the transaction state as they were.
C4_ProviderFailureKeepsStore ==
    [][(CallEnds /\ last'.err = "provider")
          => /\ last'.op \in {"add", "addBatch", "search", "searchVector"}
             /\ UNCHANGED <<memories, fts, tx>>]_vars

\* the provider has failed in an add or addBatch on a store that holds memories
C4_Witness ==
    /\ last.op \in {"add", "addBatch"}
    /\ last.err = "provider"
    /\ memories # {}

\* C5: at most one memory is stored per id, and an add under a stored id
\* overwrites it: get returns the new content and metadata and totalMemories
\* is as before.
C5_ReplaceOnConflict ==
    [][/\ \A r1, r2 \in memories' : r1.id = r2.id => r1 = r2
       /\ (tx'.pc = "running" => \A r1, r2 \in tx'.mem : r1.id = r2.id => r1 = r2)
       /\ (CallEnds /\ last'.op = "add" /\ last'.err = "none" /\ last'.existed)
             => LET g == get(memories', last'.ids[1])
                IN  /\ g # <<>>
                    /\ g[1].content = last'.res[1].content
                    /\ g[1].metadata = last'.res[1].metadata
                    /\ getStats(memories').totalMemories = getStats(memories).totalMemories]_vars

\* an add under a stored id has returned, with metadata, and get finds it
C5_Witness ==
    /\ last.op = "add" /\ last.err = "none" /\ last.existed
    /\ last.res[1].metadata = MetaSource
    /\ get(memories, last.ids[1]) # <<>>

\* C6: for as long as a memory is stored under an id, get returns the same
\* createdAt for it, also across an add that replaces it.
C6_CreatedAtImmutable ==
    [][\A id \in AllIds :
          (get(memories, id) # <<>> /\ get(memories', id) # <<>>)
             => get(memories', id)[1].createdAt = get(memories, id)[1].createdAt]_vars

\* C7: after an add under a stored id, get returns a memory with updatedAt,
\* and a memory that was created once has none.
C7_UpdatedAtOnReplace ==
    (last.op = "add" /\ last.err = "none")
       => LET g == get(memories, last.ids[1])
          IN  g # <<>> /\ (g[1].updatedAt.undef <=> ~last.existed)

\* C8: after add, get of the returned id returns a memory with that id and
\* with the content and the metadata that were added.
C8_AddGetRoundTrip ==
    (last.op = "add" /\ last.err = "none" /\ JsonLike(last.res[1].metadata))
       => LET g == get(memories, last.res[1].id)
          IN  /\ g # <<>>
              /\ g[1].id = last.ids[1]
              /\ g[1].content = last.res[1].content
              /\ g[1].metadata = last.res[1].metadata

\* an add with an object as metadata and a generated id has returned
C8_Witness ==
    /\ last.op = "add" /\ last.err = "none"
    /\ last.res[1].metadata = MetaSource
    /\ ~last.ids[1].custom

\* C9: delete on an open store returns normally; afterwards get(id) is null;
\* a delete of an id that is not stored leaves the table and the index as
\* they were, a delete of a stored id leaves every other memory; get of an
\* id that is not stored is null.
C9_DeleteIdempotent ==
    [][/\ (CallEnds /\ last'.op = "delete" /\ dbOpen)
             => /\ last'.err = "none"
                /\ get(memories', last'.ids[1]) = <<>>
                /\ \A id \in AllIds \ {last'.ids[1]} : get(memories', id) = get(memories, id)
                /\ ~last'.existed => UNCHANGED <<memories, fts>>
       /\ \A id \in AllIds \ StoredIds(memories') : get(memories', id) = <<>>]_vars

\* a delete of an id that was not stored has returned on a store with memories
C9_Witness ==
    /\ last.op = "delete" /\ last.err = "none" /\ ~last.existed
    /\ memories # {}
    /\ fts # {}

\* C10: after close() every call on the store fails with an error.
C10_FailsAfterClose ==
    closeCalled
       => /\ last.op \in {"close", "add", "addBatch", "get", "delete", "list", "getStats",
                          "searchBM25", "searchVector", "search"}
          /\ last.op # "close" => last.err \notin {"none", "running"}

\* a search has been called on a closed store that holds memories
C10_Witness ==
    /\ closeCalled
    /\ last.op = "searchBM25"
    /\ memories # {}

\* C11: on a store without an embedding provider, in whatever state the
\* store is when search is called, search(query, {limit})
\* returns what searchBM25(query, limit) returns: the same memories with
\* the same scores in the same order, each tagged bm25.
C11_HybridFallback ==
    (~hasProvider /\ last.op = "search" /\ last.err = "none")
       => \A q \in Queries, l \in Limits :
             hybridSearch(q, VisibleMem, VisibleFts, hasProvider, DefaultOptions(l))
                = MemoryStore_searchBM25(VisibleMem, VisibleFts, q, l)

\* a search has returned on a store without a provider where a query
\* matches more memories than the limit
C11_Witness ==
    /\ ~hasProvider
    /\ last.op = "search" /\ last.err = "none"
    /\ \E q \in Queries, l \in Limits :
          /\ Len(searchBM25(memories, fts, q, 2 * l)) > l
          /\ Len(hybridSearch(q, memories, fts, hasProvider, DefaultOptions(l))) = l

\* C12: whatever the branch and the state of the store, search returns the first `limit` of the
\* branch's candidates, in rank order, among those whose score is at least
\* minScore.
C12_FloorThenLimit ==
    (last.op = "search" /\ last.err = "none")
    => \A q \in Queries, l \in Limits, m \in MinScores, w \in WeightPairs :
       LET options == [DefaultOptions(l) EXCEPT !.minScore = m, !.bm25Weight = w[1],
                                               !.vectorWeight = w[2]]
           c == hybridCandidates(q, VisibleMem, VisibleFts, hasProvider, options)
       IN  hybridSearch(q, VisibleMem, VisibleFts, hasProvider, options)
              = Tagged(Take(FilterMinScore(c.ranking, m), l), c.matchType)

\* a search has returned where there are more candidates than the limit,
\* one of them under the floor, and a result
C12_Witness ==
    /\ last.op = "search" /\ last.err = "none"
    /\ \E q \in Queries, l \in Limits, m \in MinScores :
          LET options == [DefaultOptions(l) EXCEPT !.minScore = m]
              c == hybridCandidates(q, memories, fts, hasProvider, options)
          IN  /\ Len(c.ranking) > l
              /\ \E i \in DOMAIN c.ranking : RatLess(c.ranking[i].score, m)
              /\ hybridSearch(q, memories, fts, hasProvider, options) # <<>>

\* C13: in whatever state of the store, the results of one search carry
\* one matchType: bm25 when there is
\* no provider or no stored memory has an embedding, vector when some has
\* and no stored memory matches the query, hybrid when both rankings have
\* entries; with both rankings empty the result is empty.
C13_MatchTypeByRankings ==
    (last.op = "search" /\ last.err = "none")
    => \A q \in Queries, l \in Limits :
       LET results == hybridSearch(q, VisibleMem, VisibleFts, hasProvider, DefaultOptions(l))
           vectorRanked == hasProvider /\ \E r \in VisibleMem : ~r.embedding.null
           bm25Ranked == \E r \in VisibleMem : r.rowid \in Match(VisibleFts, q)
           expected == IF ~vectorRanked THEN "bm25"
                       ELSE IF ~bm25Ranked THEN "vector" ELSE "hybrid"
       IN  /\ \A i \in DOMAIN results : results[i].matchType = expected
           /\ (~vectorRanked /\ ~bm25Ranked) => results = <<>>

\* a search has returned on a store where one query gets vector results and
\* another gets hybrid results
C13_Witness ==
    /\ last.op = "search" /\ last.err = "none"
    /\ \E q1 \in Queries, q2 \in Queries, l \in Limits :
          LET r1 == hybridSearch(q1, memories, fts, hasProvider, DefaultOptions(l))
              r2 == hybridSearch(q2, memories, fts, hasProvider, DefaultOptions(l))
          IN  /\ r1 # <<>> /\ r1[1].matchType = "vector"
              /\ r2 # <<>> /\ r2[1].matchType = "hybrid"

C15_RrfScoresAndOrder ==
    (calc.fn = "reciprocalRankFusion" /\ calc.done)
       => LET ids == IdsIn(calc.rankings)
              weighted == WithWeights(calc.rankings, Ones(calc.rankings))
          IN  /\ Len(calc.out) = Cardinality(ids)
              /\ \A i \in DOMAIN calc.out : calc.out[i].id \in ids
              /\ \A id \in ids :
                    /\ Cardinality(EntriesOf(calc.out, id)) = 1
                    /\ RatEq(ScoreOf(calc.out, id),
                             RrfScoreOf(weighted, calc.k, id, Len(weighted)))
              /\ IsNonIncreasing(calc.out)

\* two rankings have been fused in which an id occurs twice in one ranking
\* and once in the other, and another id occurs once
C15_Witness ==
    /\ calc.fn = "reciprocalRankFusion" /\ calc.done
    /\ calc.rankings = <<AsRanking(<<"a", "b", "a">>), AsRanking(<<"c", "a">>)>>
    /\ Len(calc.out) = 3
    /\ calc.out[1].id = "a"

\* C16: when two duplicate-free rankings of at most k + 1 items each are
\* fused, every item of both rankings comes before every item of only one;
\* [a,b,c] and [b,c,d] with k = 60 give b, then c, and four entries.
C16_RrfBoost ==
    (/\ calc.fn = "reciprocalRankFusion" /\ calc.done
     /\ Len(calc.rankings) = 2
     /\ \A n \in 1..2 : DuplicateFree(calc.rankings[n]) /\ Len(calc.rankings[n]) <= calc.k + 1)
       => LET both == IdsOfRanking(calc.rankings[1]) \cap IdsOfRanking(calc.rankings[2])
          IN  /\ \A i, j \in DOMAIN calc.out :
                    (calc.out[i].id \in both /\ calc.out[j].id \notin both) => i < j
              /\ (/\ calc.rankings = <<AsRanking(<<"a", "b", "c">>),
                                         AsRanking(<<"b", "c", "d">>)>>
                   /\ calc.k = DEFAULT_CONFIG.k)
                    => /\ Len(calc.out) = 4
                       /\ calc.out[1].id = "b"
                       /\ calc.out[2].id = "c"

\* [a,b,c] and [b,c,d] have been fused with the default k
C16_Witness ==
    /\ calc.fn = "reciprocalRankFusion" /\ calc.done
    /\ calc.rankings = <<AsRanking(<<"a", "b", "c">>), AsRanking(<<"b", "c", "d">>)>>
    /\ calc.k = DEFAULT_CONFIG.k
    /\ Len(calc.out) = 4

C18_WeightedRrf ==
    (calc.fn = "weightedRRF" /\ calc.done)
       => /\ WeightedScores
          /\ Disjoint(calc.rankings) => HeavierScoresHigher

\* C18, amended: the same, the comparison of two items at the same rank
\* being made for disjoint rankings that hold no item twice.
C18_WeightedRrfAmended ==
    (calc.fn = "weightedRRF" /\ calc.done)
       => /\ WeightedScores
          /\ (/\ Disjoint(calc.rankings)
               /\ \A n \in 1..2 : DuplicateFree(calc.rankings[n]))
                => HeavierScoresHigher

\* [a,b] with weight 1 and [c] with weight 0 have been fused: c has score 0
\* and a, at the same rank, a higher one
C18_Witness ==
    /\ calc.fn = "weightedRRF" /\ calc.done
    /\ calc.rankings = <<AsRanking(<<"a", "b">>), AsRanking(<<"c">>)>>
    /\ calc.weights = <<1, 0>>
    /\ Len(calc.out) = 3
    /\ ScoreOf(calc.out, "c").n = 0
    /\ RatLess(ScoreOf(calc.out, "c"), ScoreOf(calc.out, "a"))

\* C19: cosineSimilarity returns 0 for vectors of different lengths and for
\* a vector of magnitude 0, and a value in [-1, 1] for any two vectors of
\* the same length.
C19_CosineBounds ==
    (calc.fn = "cosineSimilarity" /\ calc.done)
       => /\ Len(calc.a) # Len(calc.b) => calc.sim.n = 0
          /\ Len(calc.a) = Len(calc.b)
                => /\ ~RatLess(Rat(1, 1), calc.sim)
                   /\ ~RatLess(calc.sim, Rat(0 - 1, 1))
                   /\ (SumTo(calc.a, calc.a, Len(calc.a)) = 0
                          \/ SumTo(calc.b, calc.b, Len(calc.b)) = 0) => calc.sim.n = 0

\* C20: in whatever state of the store, searchVector(embedding, limit)
\* returns min(limit, number of
\* memories with an embedding) results, each a stored memory with an
\* embedding and its cosine similarity to the query, none twice, in
\* non-increasing similarity, none that is left out being more similar than
\* one returned; a memory whose embedding has another length than the
\* query's is a candidate with score 0.
C20_SearchVectorTopK ==
    (last.op = "searchVector" /\ last.err = "none")
    => \A e \in QueryEmbeddings, l \in {0} \cup Limits :
       LET results == searchVector(VisibleMem, e, l)
           embedded == {r \in VisibleMem : ~r.embedding.null}
           sim(r) == cosineSimilarity(e, r.embedding.v)
           returned == {results[i].memory.id : i \in DOMAIN results}
       IN  /\ Len(results) = Min(l, Cardinality(embedded))
           /\ \A i \in DOMAIN results :
                 \E r \in embedded :
                    /\ results[i].memory = rowToMemory(r)
                    /\ RatEq(results[i].score, sim(r))
                    /\ Len(r.embedding.v) # Len(e) => results[i].score.n = 0
           /\ \A i, j \in DOMAIN results :
                 results[i].memory.id = results[j].memory.id => i = j
           /\ IsNonIncreasing(results)
           /\ \A r \in embedded, i \in DOMAIN results :
                 r.id \notin returned => ~RatLess(results[i].score, sim(r))

\* a vector search has returned on a store with two memories with
\* embeddings, which the limit cuts to the more similar one, and a query of
\* another length ranks both with score 0
C20_Witness ==
    /\ last.op = "searchVector" /\ last.err = "none"
    /\ getStats(memories).memoriesWithEmbeddings = 2
    /\ \E e \in QueryEmbeddings :
          LET both == searchVector(memories, e, 2)
          IN  /\ RatLess(both[2].score, both[1].score)
              /\ searchVector(memories, e, 1) = <<both[1]>>
    /\ Len(searchVector(memories, <<1>>, 2)) = 2

\* C21: on a store without an embedding provider every call of
\* searchVector throws the error of the missing provider, on a closed
\* connection too (the backend is not asked), and leaves the connection,
\* the table, the index and the transaction state as they were.
C21_SearchVectorUnsupported ==
    [][(last'.op = "searchVector" /\ ~hasProvider)
          => /\ last'.err = "unsupported"
             /\ UNCHANGED <<dbOpen, closeCalled, hasProvider, memories, fts, tx>>]_vars

\* searchVector has thrown on a closed store without a provider that holds
\* memories
C21_Witness ==
    /\ ~hasProvider
    /\ last.op = "searchVector" /\ last.err = "unsupported"
    /\ ~dbOpen
    /\ memories # {}

\* C22: searchBM25(query, limit) returns at most limit results, none for
\* limit 0, in non-increasing score; the score of a result is the engine's
\* score of its row negated once, so the row the engine ranks best comes
\* first with the highest score; MemoryStore.searchBM25 and the lexical
\* candidates of hybrid search carry these scores.
C22_Bm25PublicScore ==
    (last.op = "searchBM25" /\ last.err = "none")
       => \A q \in TextQueries, l \in TextLimits :
             LET results == searchBM25(VisibleMem, VisibleFts, q, l)
                 matching == {r \in VisibleMem : r.rowid \in Match(VisibleFts, q)}
                 public(r) == RatNeg(bm25(VisibleFts, r.rowid, q))
                 facade == MemoryStore_searchBM25(VisibleMem, VisibleFts, q, l)
                 lexical == hybridCandidates(q, VisibleMem, VisibleFts, FALSE,
                                             DefaultOptions(l))
             IN  /\ Len(results) <= l
                 /\ IsNonIncreasing(results)
                 /\ \A i \in DOMAIN results :
                       \E r \in matching :
                          /\ results[i].memory = rowToMemory(r)
                          /\ results[i].score = public(r)
                          /\ RatLess(bm25(VisibleFts, r.rowid, q), results[i].score)
                 /\ results # <<>>
                       => \A r \in matching : ~RatLess(results[1].score, public(r))
                 /\ \A i \in DOMAIN results : facade[i].score = results[i].score
                 /\ lexical.ranking = searchBM25(VisibleMem, VisibleFts, q, l * 2)

\* searchBM25 has returned on a store where a query matches two texts of
\* different length: the shorter is first with the higher score, limit 1
\* keeps it alone and limit 0 keeps none
C22_Witness ==
    /\ last.op = "searchBM25" /\ last.err = "none"
    /\ \E q \in TextQueries :
          LET both == searchBM25(memories, fts, q, 2)
          IN  /\ Len(both) = 2
              /\ RatLess(both[2].score, both[1].score)
              /\ Len(both[1].memory.content) < Len(both[2].memory.content)
              /\ searchBM25(memories, fts, q, 1) = <<both[1]>>
              /\ searchBM25(memories, fts, q, 0) = <<>>

\* C23: searchBM25 returns a memory only if its stored content has every
\* term of the query, returns every such memory when there are at most
\* limit of them, and returns the empty list when there is none; on the
\* table of the three texts, searchBM25("programming language", 10) returns
\* the two texts that have both terms.
C23_Bm25MatchesStoredContent ==
    (last.op = "searchBM25" /\ last.err = "none")
       => \A q \in TextQueries, l \in TextLimits :
             LET results == searchBM25(VisibleMem, VisibleFts, q, l)
                 containing == {r \in VisibleMem : Terms(q) \subseteq Terms(r.content)}
             IN  /\ \A i \in DOMAIN results :
                       Terms(q) \subseteq Terms(results[i].memory.content)
                 /\ Cardinality(containing) <= l
                       => MemoriesOf(results) = {rowToMemory(r) : r \in containing}
                 /\ containing = {} => results = <<>>
                 /\ ({r.content : r \in VisibleMem} = Texts /\ Cardinality(VisibleMem) = 3
                       /\ q = <<"programming", "language">> /\ l = 10)
                       => /\ Len(results) = 2
                          /\ \A i \in DOMAIN results :
                                "cooking" \notin Terms(results[i].memory.content)

\* C24: list(limit) returns min(limit, totalMemories) memories for every
\* limit >= 0, in non-increasing createdAt, none that is left out being
\* more recent than one returned; list() returns every stored memory in
\* that order.
C24_ListRecentFirst ==
    (last.op = "list" /\ last.err = "none")
       => /\ \A l \in {0} \cup Limits :
                LET results == MemoryStore_list(VisibleMem, JsInt(l))
                    returned == {results[i].id : i \in DOMAIN results}
                IN  /\ Len(results) = Min(l, getStats(VisibleMem).totalMemories)
                    /\ \A i \in DOMAIN results : get(VisibleMem, results[i].id) = <<results[i]>>
                    /\ \A i, j \in DOMAIN results :
                          i < j => results[i].createdAt >= results[j].createdAt
                    /\ \A r \in VisibleMem, i \in DOMAIN results :
                          r.id \notin returned => r.created_at <= results[i].createdAt
          /\ LET all == MemoryStore_list(VisibleMem, JsUndefinedInt)
             IN  /\ Range(all) = {rowToMemory(r) : r \in VisibleMem}
                 /\ Len(all) = Cardinality(VisibleMem)
                 /\ \A i, j \in DOMAIN all : i < j => all[i].createdAt >= all[j].createdAt

\* what get returns for the ids of the model
Stored == UNION {Range(get(VisibleMem, id)) : id \in AllIds}

\* getStats counts the stored memories and those with an embedding
StatsCountStored ==
    LET stats == getStats(VisibleMem)
    IN  /\ stats.totalMemories = Cardinality(Stored)
        /\ stats.totalMemories = Len(list(VisibleMem, 0))
        /\ stats.memoriesWithEmbeddings = Cardinality({m \in Stored : ~m.embedding.undef})
        /\ stats.memoriesWithEmbeddings <= stats.totalMemories

\* C25: getStats().totalMemories is the number of stored memories (those
\* get and list return) and memoriesWithEmbeddings the number of those
\* that have an embedding, which is at most totalMemories, in every state;
\* when an addBatch of n items that computes no embedding returns,
\* totalMemories is n more than before the call and memoriesWithEmbeddings
\* is as before.
C25_StatsCountStored ==
    /\ []StatsCountStored
    /\ [][(/\ CallEnds /\ last'.op = "addBatch" /\ last'.err = "none"
           /\ \A i \in DOMAIN last'.res : last'.res[i].embedding.undef)
             => /\ getStats(memories').totalMemories
                      = getStats(memories).totalMemories + Len(last'.res)
                /\ getStats(memories').memoriesWithEmbeddings
                      = getStats(memories).memoriesWithEmbeddings]_vars

\* an addBatch without embeddings has returned on a store with a provider
\* that held a memory with an embedding
C25_Witness ==
    /\ last.op = "addBatch" /\ last.err = "none"
    /\ hasProvider
    /\ Len(last.res) = 1
    /\ last.res[1].embedding.undef
    /\ getStats(memories).totalMemories = 2
    /\ getStats(memories).memoriesWithEmbeddings = 1

\* C26: on a store without a provider no add and no addBatch fails for
\* the provider's sake, whatever the embed option; one that returns has
\* stored its memories without an embedding, memoriesWithEmbeddings is as
\* before, and searchBM25 for a term of a stored content returns the memory.
C26_WritesWithoutProvider ==
    [][(~hasProvider /\ CallEnds /\ last'.op \in {"add", "addBatch"}
          /\ last'.err # "running")
          => /\ last'.err # "provider"
             /\ (dbOpen /\ last'.err # "storage") => last'.err = "none"
             /\ last'.err = "none"
                   => /\ \A i \in DOMAIN last'.res :
                            LET m == last'.res[i]
                                g == get(memories', m.id)
                            IN  /\ m.embedding.undef
                                /\ g # <<>>
                                /\ g[1].embedding.undef
                                /\ \A t \in Terms(m.content) :
                                      m.id \in {x.id : x \in MemoriesOf(
                                         searchBM25(memories', fts', <<t>>,
                                                    Cardinality(memories')))}
                      /\ getStats(memories').memoriesWithEmbeddings
                            = getStats(memories).memoriesWithEmbeddings]_vars

\* an addBatch of two items has returned on a store without a provider
C26_Witness ==
    /\ ~hasProvider
    /\ last.op = "addBatch" /\ last.err = "none"
    /\ Len(last.res) = 2
    /\ getStats(memories).memoriesWithEmbeddings = 0

(***************************************************************************)
(* The MCP server's answers to invalid arguments.                          *)
(***************************************************************************)
\* the request just served is a tools/call whose arguments fail validation
InvalidCall(served) ==
    /\ served.fn = "mcp"
    /\ served.req # <<>>
    /\ served.req[1].method = "tools/call"
    /\ served.req[1].name # ""
    /\ validateArgs(served.req[1].name, served.req[1].arguments) # ""

\* C27: a tools/call whose arguments fail validation (engram.search with a
\* missing or blank query gives missing_query) is answered under the
\* request's id with {error: code, message}, or with
\* {ok: false, error: {code, message}} when wrapErrors is on, and the call
\* neither opens nor changes the store
C27_ValidationErrorAnswered ==
    [][InvalidCall(calc')
         => LET req == calc'.req[1]
                code == validateArgs(req.name, req.arguments)
                message == describeValidationError(code)
                answer == calc'.response[1]
            IN  /\ Len(calc'.response) = 1
                /\ answer.id = req.id
                /\ answer.error = ""
                /\ answer.result
                     = << IF calc'.wrapErrors
                          THEN [ok |-> FALSE,
                                error |-> [code |-> code, message |-> message]]
                          ELSE [error |-> code, message |-> message, data |-> <<>>] >>
                /\ (/\ req.name = "engram.search"
                    /\ \/ req.arguments.query.t = "undefined"
                       \/ /\ req.arguments.query.t = "string"
                          /\ \A i \in DOMAIN req.arguments.query.v :
                                req.arguments.query.v[i] = " ")
                      => code = "missing_query"
                /\ ~calc'.opened
                /\ UNCHANGED <<dbOpen, closeCalled, memories, fts, tx>>]_vars

C27_Witness ==
    /\ InvalidCall(calc)
    /\ calc.wrapErrors
    /\ calc.req[1].name = "engram.search"
    /\ calc.req[1].arguments.query = Str(<<" ">>)
    /\ calc.req[1].id = SqlInt(7)
    /\ calc.response[1].id = SqlInt(7)
    /\ calc.response[1].result[1].error.code = "missing_query"
    /\ ~calc.opened
    /\ Cardinality(memories) = 2

(***************************************************************************)
(* The order of the fused list.                                            *)
(***************************************************************************)
\* the ids of the rankings in the order in which the loops read them
RECURSIVE ScanOrder(_)
ScanOrder(rankings) ==
    IF rankings = <<>> THEN <<>>
    ELSE [j \in DOMAIN Head(rankings) |-> Head(rankings)[j].memory.id]
            \o ScanOrder(Tail(rankings))

\* the place at which the scan first meets id
FirstMet(rankings, id) ==
    LET scan == ScanOrder(rankings)
    IN  CHOOSE p \in DOMAIN scan :
           scan[p] = id /\ \A q \in 1..(p - 1) : scan[q] # id

\* out is sorted by non-increasing score, entries of equal score in the
\* order in which their ids were first met
OrderedByScoreThenFirstMet(rankings, out) ==
    \A i, j \in DOMAIN out :
       i < j => /\ ~RatLess(out[i].score, out[j].score)
                /\ RatEq(out[i].score, out[j].score)
                     => FirstMet(rankings, out[i].id) < FirstMet(rankings, out[j].id)

\* out is the ranking, in its order, with strictly decreasing scores
RescoredCopy(ranking, out) ==
    /\ Len(out) = Len(ranking)
    /\ \A i \in DOMAIN out : out[i].item = ranking[i]
    /\ \A i \in 1..(Len(out) - 1) : RatLess(out[i + 1].score, out[i].score)

\* C28: the fused list is sorted by non-increasing score and entries of
\* equal score keep the order in which their ids were first met when the
\* rankings are scanned in the given order; reciprocalRankFusion of no
\* rankings gives an empty list and of a single duplicate-free ranking gives
\* that ranking in its input order with strictly decreasing scores
C28_RrfOrderDetermined ==
    (calc.fn \in {"reciprocalRankFusion", "weightedRRF"} /\ calc.done)
       => /\ OrderedByScoreThenFirstMet(calc.rankings, calc.out)
          /\ calc.fn = "reciprocalRankFusion"
               => /\ calc.rankings = <<>> => calc.out = <<>>
                  /\ (Len(calc.rankings) = 1 /\ DuplicateFree(calc.rankings[1]))
                        => RescoredCopy(calc.rankings[1], calc.out)

C28_Witness ==
    /\ calc.fn = "reciprocalRankFusion" /\ calc.done
    /\ calc.rankings = <<AsRanking(<<"a", "b">>), AsRanking(<<"c", "d">>)>>
    /\ [i \in DOMAIN calc.out |-> calc.out[i].id] = <<"a", "c", "b", "d">>
    /\ RatEq(calc.out[1].score, calc.out[2].score)
    /\ RatLess(calc.out[3].score, calc.out[2].score)

(***************************************************************************)
(* The OAuth token.                                                        *)
(***************************************************************************)
\* a source holds a credential that can be read
Readable(entry) ==
    /\ entry.kind = "oauth"
    /\ entry.accessToken # ""
    /\ entry.refreshToken # ""
    /\ entry.expiresAt > 0

\* the sources that getAnthropicOAuthToken can read, the keychain first
ReadableSources(call) ==
    SelectSeq(<<call.keychain, call.file>>,
              LAMBDA e : Readable(e) /\ (e = call.keychain => call.platform = "darwin"))

TokenCallAsClaimed ==
    calc.fn = "getAnthropicOAuthToken"
       => LET sources == ReadableSources(calc)
              stored == sources[1]
              fresh == stored.expiresAt - calc.now > 5 * 60 * 1000
          IN  /\ Len(calc.fetches) <= 1
              /\ calc.pc \in {"called", "refreshing", "returned"}
              /\ calc.pc = "refreshing"
                   => sources # <<>> /\ ~fresh /\ calc.fetches = <<stored.refreshToken>>
              /\ calc.pc = "returned"
                   => /\ Len(calc.result) = 1
                      /\ IF sources = <<>>
                         THEN ~calc.result[1].ok /\ calc.fetches = <<>>
                         ELSE IF fresh
                         THEN /\ calc.result = OAuthOk(stored.accessToken)
                              /\ calc.fetches = <<>>
                         ELSE /\ calc.fetches = <<stored.refreshToken>>
                              /\ IF calc.response[1].kind = "ok"
                                 THEN calc.result = OAuthOk(calc.response[1].access_token)
                                 ELSE /\ ~calc.result[1].ok
                                      /\ calc.result[1].error[1] = "OAuth refresh failed: "

\* C29: getAnthropicOAuthToken always returns a result and asks for at most
\* one refresh: ok: false when no credentials can be read; the stored access
\* token, with no request, when the credential expires more than 5 minutes
\* from now; otherwise one refresh request, and the refreshed access token
\* when it succeeds or ok: false with 'OAuth refresh failed' when it fails
C29_OAuthTokenOneRefresh ==
    /\ []TokenCallAsClaimed
    /\ [][calc.pc = "refreshing" => calc'.pc = "returned"]_vars

C29_Witness ==
    /\ calc.fn = "getAnthropicOAuthToken"
    /\ calc.pc = "returned"
    /\ calc.platform = "darwin"
    /\ calc.keychain = Entry("oauth", "keychain-token", "refresh-token", Now + 5 * 60 * 1000)
    /\ Readable(calc.file)
    /\ calc.fetches = <<"refresh-token">>
    /\ calc.response[1].kind = "not ok"
    /\ ~calc.result[1].ok

(***************************************************************************)
(* The reading calls and the store.                                        *)
(***************************************************************************)
ReadOps == {"get", "list", "getStats", "searchBM25", "searchVector", "search"}

\* C30: get, list, getStats, searchBM25, searchVector and search leave the
\* stored memories with all their fields, the full-text index and the
\* stored embeddings as they were, whether the call returns or throws
C30_ReadsLeaveStore ==
    [][(last' # last /\ last'.op \in ReadOps)
          => UNCHANGED <<memories, fts, dbOpen, closeCalled, hasProvider, tx>>]_vars

C30_Witness ==
    /\ last.op = "search"
    /\ last.err = "provider"
    /\ hasProvider
    /\ dbOpen
    /\ Cardinality(memories) = 2
    /\ \E r \in memories : ~r.embedding.null
    /\ fts # {}

====
